---- MODULE Spec2Model ----
(***************************************************************************)
(* Search-and-cache engine of the ADAS calibration system                   *)
(* (src/modules/search.py): SearchCache, TextNormalizer, IntelligentSearch. *)
(*                                                                         *)
(* Text is a sequence of one-character strings, so that the string          *)
(* transforms of the code (upper, lower, strip, accent folding, regular     *)
(* expression substitution) are computed character by character.  An        *)
(* accented character is written as its base letter followed by the accent  *)
(* ("a~" is a-tilde, "A~" its upper case).                                  *)
(*                                                                         *)
(* Scores are kept in tenths of a point (score 60 is 600), which makes the  *)
(* weights 0.6, 0.4 and 0.3 of the relevance score exact in integers.       *)
(* Time is counted in hours.                                                *)
(***************************************************************************)
EXTENDS Integers, Sequences, FiniteSets, TLC

(***************************************************************************)
(* Python's str primitives on sequences of characters.                      *)
(***************************************************************************)
LowerLetters ==
  <<"a", "b", "c", "d", "e", "f", "g", "h", "i", "j", "k", "l", "m",
    "n", "o", "p", "q", "r", "s", "t", "u", "v", "w", "x", "y", "z", "a~", "e'">>

UpperLetters ==
  <<"A", "B", "C", "D", "E", "F", "G", "H", "I", "J", "K", "L", "M",
    "N", "O", "P", "Q", "R", "S", "T", "U", "V", "W", "X", "Y", "Z", "A~", "E'">>

Digits == <<"0", "1", "2", "3", "4", "5", "6", "7", "8", "9">>

Range(s) == {s[i] : i \in DOMAIN s}

IndexOf(c, s) == CHOOSE i \in DOMAIN s : s[i] = c

\* the characters of the model's texts
Chars ==
  Range(LowerLetters) \cup Range(UpperLetters) \cup Range(Digits)
    \cup {" ", "_", "-", ".", "!", "/"}

\* str.upper() and str.lower(), one character
UpperMap ==
  [c \in Chars |->
     IF c \in Range(LowerLetters) THEN UpperLetters[IndexOf(c, LowerLetters)]
     ELSE c]

LowerMap ==
  [c \in Chars |->
     IF c \in Range(UpperLetters) THEN LowerLetters[IndexOf(c, UpperLetters)]
     ELSE c]

upper(s) == [i \in DOMAIN s |-> UpperMap[s[i]]]

lower(s) == [i \in DOMAIN s |-> LowerMap[s[i]]]

\* the class \s of the regular expressions, and what str.strip() removes
IsSpace(c) == c = " "

\* the class \w of the regular expressions: letters, digits and underscore
WordChars ==
  Range(LowerLetters) \cup Range(UpperLetters) \cup Range(Digits) \cup {"_"}

IsWord(c) == c \in WordChars

DigitChars == Range(Digits)

IsDigit(c) == c \in DigitChars

RECURSIVE lstrip(_)
lstrip(s) ==
  IF s # <<>> /\ IsSpace(Head(s)) THEN lstrip(Tail(s)) ELSE s

RECURSIVE rstrip(_)
rstrip(s) ==
  IF s # <<>> /\ IsSpace(s[Len(s)]) THEN rstrip(SubSeq(s, 1, Len(s) - 1)) ELSE s

strip(s) == rstrip(lstrip(s))

\* a in b, for two strings
Contains(b, a) ==
  \E i \in 0..(Len(b) - Len(a)) : SubSeq(b, i + 1, i + Len(a)) = a

\* str.isdigit()
isdigit(s) == s # <<>> /\ \A i \in DOMAIN s : IsDigit(s[i])

DigitValue(c) == IndexOf(c, Digits) - 1

\* int(s) for a string of digits
RECURSIVE int(_)
int(s) ==
  IF s = <<>> THEN 0
  ELSE 10 * int(SubSeq(s, 1, Len(s) - 1)) + DigitValue(s[Len(s)])

\* str(n) for an integer n >= 0
RECURSIVE str(_)
str(n) ==
  IF n < 10 THEN <<Digits[n + 1]>>
  ELSE str(n \div 10) \o <<Digits[(n % 10) + 1]>>

(***************************************************************************)
(* TextNormalizer                                                           *)
(***************************************************************************)
accented == <<"A~", "E'">>

unaccented == <<"A", "E">>

\* the loop over accent_map: text.replace(accented, normal)
FoldMap ==
  [c \in Chars |->
     IF c \in Range(accented) THEN unaccented[IndexOf(c, accented)] ELSE c]

FoldAccent(c) == FoldMap[c]

\* a faulty variant: punctuation is kept
PunctToSpace_Kept(c) == c

\* re.sub(r'[^\w\s]', ' ', text)
PunctToSpace(c) == IF IsWord(c) \/ IsSpace(c) THEN c ELSE " "

\* re.sub(r'\s+', ' ', text)
RECURSIVE CollapseSpaces(_)
CollapseSpaces(s) ==
  IF s = <<>> THEN <<>>
  ELSE IF IsSpace(Head(s))
       THEN <<" ">> \o CollapseSpaces(lstrip(Tail(s)))
       ELSE <<Head(s)>> \o CollapseSpaces(Tail(s))

normalize_text(text) ==
  LET t1 == strip(upper(text))
      t2 == [i \in DOMAIN t1 |-> FoldAccent(t1[i])]
      t3 == [i \in DOMAIN t2 |-> PunctToSpace(t2[i])]
  IN  strip(CollapseSpaces(t3))

\* re.findall(r'\d+', text): the maximal runs of digits, in order
RECURSIVE DigitRun(_)
DigitRun(s) ==
  IF s # <<>> /\ IsDigit(Head(s)) THEN <<Head(s)>> \o DigitRun(Tail(s)) ELSE <<>>

RECURSIVE extract_numbers(_)
extract_numbers(text) ==
  IF text = <<>> THEN <<>>
  ELSE IF IsDigit(Head(text))
       THEN LET run == DigitRun(text)
            IN  <<run>> \o extract_numbers(SubSeq(text, Len(run) + 1, Len(text)))
       ELSE extract_numbers(Tail(text))

known_brands ==
  << <<"B", "M", "W">>,
     <<"M", "E", "R", "C", "E", "D", "E", "S">>,
     <<"M", "E", "R", "C", "E", "D", "E", "S", "-", "B", "E", "N", "Z">>,
     <<"A", "U", "D", "I">>,
     <<"V", "O", "L", "K", "S", "W", "A", "G", "E", "N">>,
     <<"V", "W">>,
     <<"V", "O", "L", "V", "O">>,
     <<"T", "O", "Y", "O", "T", "A">>,
     <<"F", "O", "R", "D">>,
     <<"H", "Y", "U", "N", "D", "A", "I">>,
     <<"J", "E", "E", "P">>,
     <<"L", "A", "N", "D", " ", "R", "O", "V", "E", "R">>,
     <<"P", "E", "U", "G", "E", "O", "T">>,
     <<"R", "E", "N", "A", "U", "L", "T">>,
     <<"F", "I", "A", "T">>,
     <<"N", "I", "S", "S", "A", "N">>,
     <<"H", "O", "N", "D", "A">>,
     <<"M", "A", "Z", "D", "A">>,
     <<"S", "U", "B", "A", "R", "U">>,
     <<"M", "I", "T", "S", "U", "B", "I", "S", "H", "I">>,
     <<"L", "E", "X", "U", "S">>,
     <<"I", "N", "F", "I", "N", "I", "T", "I">>,
     <<"A", "C", "U", "R", "A">>,
     <<"P", "O", "R", "S", "C", "H", "E">>,
     <<"F", "E", "R", "R", "A", "R", "I">>,
     <<"L", "A", "M", "B", "O", "R", "G", "H", "I", "N", "I">>,
     <<"B", "E", "N", "T", "L", "E", "Y">>,
     <<"R", "O", "L", "L", "S", "-", "R", "O", "Y", "C", "E">> >>

\* extract_brands: every known brand that occurs in the normalized text
SelectBrands(text_normalized) ==
  SelectSeq(known_brands, LAMBDA brand : Contains(text_normalized, brand))

extract_brands(text) == SelectBrands(normalize_text(text))

(***************************************************************************)
(* The dataset.  A row carries the columns of the data of                   *)
(* test_search_system; the optional columns 'ADAS no Parabrisa', 'Adas no   *)
(* Parachoque', 'Camera no Retrovisor' and 'Farois Matrix' are absent.      *)
(* ROW_BMW118 is the first row of that test; ROW_BMW320 is a second BMW     *)
(* and ROW_GOLF repeats the FipeID of ROW_BMW118.                           *)
(***************************************************************************)
Q_ID ==
  <<"9", "2", "9", "8", "3">>

Q_118 ==
  <<"1", "1", "8">>

Q_BMW118 ==
  <<"B", "M", "W", " ", "1", "1", "8", "i">>

Q_bmw118 ==
  <<"b", "m", "w", " ", "1", "1", "8", "i", " ">>

Q_BMW_118 ==
  <<"B", "M", "W", "-", "1", "1", "8", "i">>

Q_NOTFOUND ==
  <<"z", "z", "z", "z", "n", "o", "t", "f", "o", "u", "n", "d">>

Q_PUNCT ==
  <<" ", "!">>

ROW_BMW118 ==
  [FipeID |-> 92983,
   BrandName |-> <<"B", "M", "W">>,
   VehicleName |-> <<"1", "1", "8", "i", " ", "M", " ", "S", "p", "o", "r", "t", " ", "1", ".", "5", " ", "T", "B", " ", "1", "2", "V", " ", "A", "u", "t", ".", " ", "5", "p">>,
   Abreviacao |-> <<"1", "1", "8", "i", " ", "M", " ", "S", "p", "o", "r", "t">>,
   VehicleModelYear |-> 2024,
   ADAS |-> <<"S", "i", "m">>,
   TipoRegulagem |-> <<"D", "i", "n", "a", "m", "i", "c", "a">>]

ROW_BMW320 ==
  [FipeID |-> 81234,
   BrandName |-> <<"B", "M", "W">>,
   VehicleName |-> <<"3", "2", "0", "i", " ", "2", ".", "0", " ", "A", "u", "t", ".">>,
   Abreviacao |-> <<"3", "2", "0", "i">>,
   VehicleModelYear |-> 2023,
   ADAS |-> <<"N", "a~", "o">>,
   TipoRegulagem |-> <<"E", "s", "t", "a", "t", "i", "c", "a">>]

ROW_GOLF ==
  [FipeID |-> 92983,
   BrandName |-> <<"V", "O", "L", "K", "S", "W", "A", "G", "E", "N">>,
   VehicleName |-> <<"G", "o", "l", "f", " ", "G", "T", "I", " ", "2", ".", "0">>,
   Abreviacao |-> <<"G", "o", "l", "f", " ", "G", "T", "I">>,
   VehicleModelYear |-> 2022,
   ADAS |-> <<"N", "a~", "o">>,
   TipoRegulagem |-> <<"E", "s", "t", "a", "t", "i", "c", "a", "/", "D", "i", "n", "a", "m", "i", "c", "a">>]

Catalog == {ROW_BMW118, ROW_BMW320, ROW_GOLF}

\* a field without a string: None, which row.get returns for a column that
\* the dataset does not have, or NaN, a missing value
Missing == <<"None">>

\* the row of ROW_BMW118 in a dataset without the column Tipo de Regulagem
ROW_NOCALIB == [ROW_BMW118 EXCEPT !.TipoRegulagem = Missing]

Sim == <<"S", "i", "m">>

Nao == <<"N", "a~", "o">>

(***************************************************************************)
(* fuzz.ratio and fuzz.partial_ratio of the fuzzywuzzy library, on the      *)
(* upper-cased texts the relevance score passes to them: the values the     *)
(* library (difflib backend) returns for the texts of the model.            *)
(***************************************************************************)
RatioTable ==
  <<<<"1", "1", "8">>,
    <<"1", "1", "8", "I", " ", "M", " ", "S", "P", "O", "R", "T">>>> :> 40 @@
  <<<<"1", "1", "8">>,
    <<"3", "2", "0", "I">>>> :> 0 @@
  <<<<"1", "1", "8">>,
    <<"G", "O", "L", "F", " ", "G", "T", "I">>>> :> 0 @@
  <<<<"9", "2", "9", "8", "3">>,
    <<"1", "1", "8", "I", " ", "M", " ", "S", "P", "O", "R", "T">>>> :> 12 @@
  <<<<"9", "2", "9", "8", "3">>,
    <<"3", "2", "0", "I">>>> :> 22 @@
  <<<<"9", "2", "9", "8", "3">>,
    <<"G", "O", "L", "F", " ", "G", "T", "I">>>> :> 0 @@
  <<<<"B", "M", "W", " ", "1", "1", "8", "I">>,
    <<"1", "1", "8", "I", " ", "M", " ", "S", "P", "O", "R", "T">>>> :> 40 @@
  <<<<"B", "M", "W", " ", "1", "1", "8", "I">>,
    <<"3", "2", "0", "I">>>> :> 17 @@
  <<<<"B", "M", "W", " ", "1", "1", "8", "I">>,
    <<"G", "O", "L", "F", " ", "G", "T", "I">>>> :> 25 @@
  <<<<"Z", "Z", "Z", "Z", "N", "O", "T", "F", "O", "U", "N", "D">>,
    <<"1", "1", "8", "I", " ", "M", " ", "S", "P", "O", "R", "T">>>> :> 17 @@
  <<<<"Z", "Z", "Z", "Z", "N", "O", "T", "F", "O", "U", "N", "D">>,
    <<"3", "2", "0", "I">>>> :> 0 @@
  <<<<"Z", "Z", "Z", "Z", "N", "O", "T", "F", "O", "U", "N", "D">>,
    <<"G", "O", "L", "F", " ", "G", "T", "I">>>> :> 20

PartialRatioTable ==
  <<<<"1", "1", "8">>,
    <<"1", "1", "8", "I", " ", "M", " ", "S", "P", "O", "R", "T", " ", "1", ".", "5", " ", "T", "B", " ", "1", "2", "V", " ", "A", "U", "T", ".", " ", "5", "P">>>> :> 100 @@
  <<<<"1", "1", "8">>,
    <<"3", "2", "0", "I", " ", "2", ".", "0", " ", "A", "U", "T", ".">>>> :> 0 @@
  <<<<"1", "1", "8">>,
    <<"B", "M", "W", " ", "1", "1", "8", "I", " ", "M", " ", "S", "P", "O", "R", "T", " ", "1", ".", "5", " ", "T", "B", " ", "1", "2", "V", " ", "A", "U", "T", ".", " ", "5", "P", " ", "1", "1", "8", "I", " ", "M", " ", "S", "P", "O", "R", "T">>>> :> 100 @@
  <<<<"1", "1", "8">>,
    <<"B", "M", "W", " ", "3", "2", "0", "I", " ", "2", ".", "0", " ", "A", "U", "T", ".", " ", "3", "2", "0", "I">>>> :> 0 @@
  <<<<"1", "1", "8">>,
    <<"G", "O", "L", "F", " ", "G", "T", "I", " ", "2", ".", "0">>>> :> 0 @@
  <<<<"1", "1", "8">>,
    <<"V", "O", "L", "K", "S", "W", "A", "G", "E", "N", " ", "G", "O", "L", "F", " ", "G", "T", "I", " ", "2", ".", "0", " ", "G", "O", "L", "F", " ", "G", "T", "I">>>> :> 0 @@
  <<<<"9", "2", "9", "8", "3">>,
    <<"1", "1", "8", "I", " ", "M", " ", "S", "P", "O", "R", "T", " ", "1", ".", "5", " ", "T", "B", " ", "1", "2", "V", " ", "A", "U", "T", ".", " ", "5", "P">>>> :> 20 @@
  <<<<"9", "2", "9", "8", "3">>,
    <<"3", "2", "0", "I", " ", "2", ".", "0", " ", "A", "U", "T", ".">>>> :> 20 @@
  <<<<"9", "2", "9", "8", "3">>,
    <<"B", "M", "W", " ", "1", "1", "8", "I", " ", "M", " ", "S", "P", "O", "R", "T", " ", "1", ".", "5", " ", "T", "B", " ", "1", "2", "V", " ", "A", "U", "T", ".", " ", "5", "P", " ", "1", "1", "8", "I", " ", "M", " ", "S", "P", "O", "R", "T">>>> :> 20 @@
  <<<<"9", "2", "9", "8", "3">>,
    <<"B", "M", "W", " ", "3", "2", "0", "I", " ", "2", ".", "0", " ", "A", "U", "T", ".", " ", "3", "2", "0", "I">>>> :> 20 @@
  <<<<"9", "2", "9", "8", "3">>,
    <<"G", "O", "L", "F", " ", "G", "T", "I", " ", "2", ".", "0">>>> :> 22 @@
  <<<<"9", "2", "9", "8", "3">>,
    <<"V", "O", "L", "K", "S", "W", "A", "G", "E", "N", " ", "G", "O", "L", "F", " ", "G", "T", "I", " ", "2", ".", "0", " ", "G", "O", "L", "F", " ", "G", "T", "I">>>> :> 20 @@
  <<<<"B", "M", "W", " ", "1", "1", "8", "I">>,
    <<"1", "1", "8", "I", " ", "M", " ", "S", "P", "O", "R", "T", " ", "1", ".", "5", " ", "T", "B", " ", "1", "2", "V", " ", "A", "U", "T", ".", " ", "5", "P">>>> :> 50 @@
  <<<<"B", "M", "W", " ", "1", "1", "8", "I">>,
    <<"3", "2", "0", "I", " ", "2", ".", "0", " ", "A", "U", "T", ".">>>> :> 12 @@
  <<<<"B", "M", "W", " ", "1", "1", "8", "I">>,
    <<"B", "M", "W", " ", "1", "1", "8", "I", " ", "M", " ", "S", "P", "O", "R", "T", " ", "1", ".", "5", " ", "T", "B", " ", "1", "2", "V", " ", "A", "U", "T", ".", " ", "5", "P", " ", "1", "1", "8", "I", " ", "M", " ", "S", "P", "O", "R", "T">>>> :> 100 @@
  <<<<"B", "M", "W", " ", "1", "1", "8", "I">>,
    <<"B", "M", "W", " ", "3", "2", "0", "I", " ", "2", ".", "0", " ", "A", "U", "T", ".", " ", "3", "2", "0", "I">>>> :> 62 @@
  <<<<"B", "M", "W", " ", "1", "1", "8", "I">>,
    <<"G", "O", "L", "F", " ", "G", "T", "I", " ", "2", ".", "0">>>> :> 25 @@
  <<<<"B", "M", "W", " ", "1", "1", "8", "I">>,
    <<"V", "O", "L", "K", "S", "W", "A", "G", "E", "N", " ", "G", "O", "L", "F", " ", "G", "T", "I", " ", "2", ".", "0", " ", "G", "O", "L", "F", " ", "G", "T", "I">>>> :> 25 @@
  <<<<"Z", "Z", "Z", "Z", "N", "O", "T", "F", "O", "U", "N", "D">>,
    <<"1", "1", "8", "I", " ", "M", " ", "S", "P", "O", "R", "T", " ", "1", ".", "5", " ", "T", "B", " ", "1", "2", "V", " ", "A", "U", "T", ".", " ", "5", "P">>>> :> 17 @@
  <<<<"Z", "Z", "Z", "Z", "N", "O", "T", "F", "O", "U", "N", "D">>,
    <<"3", "2", "0", "I", " ", "2", ".", "0", " ", "A", "U", "T", ".">>>> :> 10 @@
  <<<<"Z", "Z", "Z", "Z", "N", "O", "T", "F", "O", "U", "N", "D">>,
    <<"B", "M", "W", " ", "1", "1", "8", "I", " ", "M", " ", "S", "P", "O", "R", "T", " ", "1", ".", "5", " ", "T", "B", " ", "1", "2", "V", " ", "A", "U", "T", ".", " ", "5", "P", " ", "1", "1", "8", "I", " ", "M", " ", "S", "P", "O", "R", "T">>>> :> 17 @@
  <<<<"Z", "Z", "Z", "Z", "N", "O", "T", "F", "O", "U", "N", "D">>,
    <<"B", "M", "W", " ", "3", "2", "0", "I", " ", "2", ".", "0", " ", "A", "U", "T", ".", " ", "3", "2", "0", "I">>>> :> 8 @@
  <<<<"Z", "Z", "Z", "Z", "N", "O", "T", "F", "O", "U", "N", "D">>,
    <<"G", "O", "L", "F", " ", "G", "T", "I", " ", "2", ".", "0">>>> :> 17 @@
  <<<<"Z", "Z", "Z", "Z", "N", "O", "T", "F", "O", "U", "N", "D">>,
    <<"V", "O", "L", "K", "S", "W", "A", "G", "E", "N", " ", "G", "O", "L", "F", " ", "G", "T", "I", " ", "2", ".", "0", " ", "G", "O", "L", "F", " ", "G", "T", "I">>>> :> 25

\* fuzz.ratio: 100 on equal strings, 0 when one is empty
ratio(s1, s2) ==
  IF s1 = s2 THEN 100
  ELSE IF s1 = <<>> \/ s2 = <<>> THEN 0
  ELSE RatioTable[<<s1, s2>>]

\* fuzz.partial_ratio: 100 on equal strings, 0 when one is empty
partial_ratio(s1, s2) ==
  IF s1 = s2 THEN 100
  ELSE IF s1 = <<>> \/ s2 = <<>> THEN 0
  ELSE PartialRatioTable[<<s1, s2>>]

(***************************************************************************)
(* Bounds of the model                                                      *)
(***************************************************************************)
\* rows of a dataset
MaxRows == 2

\* calls of search in one run
MaxSearches == 2

\* hours the clock runs
MaxTime == 24

\* rows of the largest dataset of the advanced searches
MaxFleet == 80

(***************************************************************************)
(* Constants of the program                                                 *)
(***************************************************************************)
cache_duration_hours == 24

default_max_results == 10

relevance_threshold == 60

log_limit == 50

advanced_limit == 50

advanced_score == 95

\* the clock advances in steps of half the cache duration
TickHours == cache_duration_hours \div 2

Min(a, b) == IF a <= b THEN a ELSE b

\* s[:n]
Take(s, n) == SubSeq(s, 1, Min(n, Len(s)))

VARIABLES
  df,                \* db.df: the loaded dataset, a sequence of rows
  cache,             \* SearchCache.cache: cache key -> entry
  cache_file,        \* the content of cache/search_cache.json
  now,               \* datetime.now(), in hours
  search_analytics,  \* IntelligentSearch.search_analytics
  last_set,          \* history: cache key -> the results and the time of
                     \* the most recent SearchCache.set with that key
  call,              \* the last operation called, its arguments and its time
  ret,               \* what that operation returned
  database,          \* the VehicleDatabase: df, index, validation_report
  loading,           \* the call of load_from_csv under way, if any
  callers,           \* the calls of SearchCache.get and SearchCache.set
                     \* under way at the same time, one per caller
  bosch              \* the BoschIntegration: cache and the content of
                     \* cache/bosch_cache.json

vars ==
  <<df, cache, cache_file, now, search_analytics, last_set, call, ret,
    database, loading, bosch, callers>>

\* the VehicleDatabase and its loads
db_vars == <<database, loading>>

\* the search engine, its cache and its clock
search_vars == <<df, cache, cache_file, now, search_analytics, last_set>>

(***************************************************************************)
(* The inputs of the model                                                  *)
(***************************************************************************)
IsInjective(s) == \A i, j \in DOMAIN s : s[i] = s[j] => i = j

\* every dataset of at most MaxRows different rows of the catalog
Datasets ==
  {d \in UNION {[1..n -> Catalog] : n \in 0..MaxRows} : IsInjective(d)}

\* the rows of a large dataset: the rows of the catalog in turn, each with
\* an id of its own, the years running over 2019..2024
FleetRow(i) ==
  LET like == IF i % 3 = 1 THEN ROW_BMW118
              ELSE IF i % 3 = 2 THEN ROW_BMW320
              ELSE [ROW_GOLF EXCEPT !.ADAS = IF i % 2 = 0 THEN Sim ELSE Nao]
  IN  [like EXCEPT !.FipeID = 10000 + i, !.VehicleModelYear = 2019 + (i % 6)]

Fleet(n) == [i \in 1..n |-> FleetRow(i)]

\* datasets with more rows than advanced_search returns
Fleets == {Fleet(advanced_limit + 1), Fleet(MaxFleet)}

F_bmw == <<"b", "m", "w">>

F_dina == <<"d", "i", "n", "a">>

\* one filter mapping, built in two orders
F_brand_adas == << <<"brand", F_bmw>>, <<"has_adas", TRUE>> >>

F_adas_brand == << <<"has_adas", TRUE>>, <<"brand", F_bmw>> >>

FilterSets ==
  { <<>>,
    F_brand_adas,
    F_adas_brand,
    << <<"year", 2023>> >>,
    << <<"year", 0>> >>,
    << <<"has_adas", FALSE>> >>,
    << <<"calibration_type", F_dina>> >> }

Queries == {Q_ID, Q_BMW118, Q_bmw118, Q_BMW_118, Q_NOTFOUND, Q_PUNCT}

\* queries of digits: the id of a row of the catalog, and digits that are
\* the id of no row
DigitQueries == {Q_ID, Q_118}

MaxResultsValues == {1, default_max_results}

\* the calls of search without filters
Requests ==
  [query : Queries, filters : {<<>>}, max_results : MaxResultsValues]

\* the calls of search with filters
FilterRequests ==
  [query : {Q_BMW118, Q_ID}, filters : FilterSets,
   max_results : {default_max_results}]

CriteriaSets ==
  { [brand |-> <<"V", "O", "L", "K", "S", "W", "A", "G", "E", "N">>,
     year_range |-> <<2020, 2024>>, has_adas |-> TRUE],
    [brand |-> F_bmw],
    [year_range |-> <<2023, 2023>>],
    [has_adas |-> FALSE],
    [calibration_type |-> F_dina],
    [brand |-> F_bmw, calibration_type |-> F_dina, has_adas |-> TRUE],
    [brand |-> <<"v", "o", "l", "k", "s">>, has_adas |-> FALSE],
    [year_range |-> <<2020, 2024>>],
    [year_range |-> <<2021, 2022>>, calibration_type |-> F_dina],
    <<>> }

\* normalize_text of every query of the model, computed once
Normalized == [query \in Queries \cup DigitQueries |-> normalize_text(query)]

\* query.lower().strip() of every query of the model, computed once
LowerStripped ==
  [query \in Queries \cup DigitQueries |-> strip(lower(query))]

(***************************************************************************)
(* SearchCache                                                              *)
(***************************************************************************)
\* the keys a filter set may hold, in json.dumps(sort_keys=True) order
FilterKeys == <<"brand", "calibration_type", "has_adas", "year">>

\* json.dumps(filters, sort_keys=True): the key/value pairs in key order.
\* filters is a dict, modelled as the sequence of its <<key, value>> pairs
\* in insertion order.
RECURSIVE dumps_sorted(_, _)
dumps_sorted(keys, filters) ==
  IF keys = <<>> THEN <<>>
  ELSE SelectSeq(filters, LAMBDA kv : kv[1] = Head(keys))
         \o dumps_sorted(Tail(keys), filters)

\* a faulty variant: the filters serialized in insertion order
get_cache_key_InsertionOrder(query, filters) ==
  <<LowerStripped[query], filters>>

\* The md5 digest of the cache string; the digest and the "_" that joins
\* the two parts are taken to be injective, so the key is the pair.
get_cache_key(query, filters) ==
  <<LowerStripped[query],
    IF filters # <<>> THEN dumps_sorted(FilterKeys, filters) ELSE <<>>>>

\* a faulty variant: an entry exactly cache_duration old still counts as fresh
IsFresh_Inclusive(entry, t) == t - entry.timestamp <= cache_duration_hours

\* now - cache_time < self.cache_duration
IsFresh(entry, t) == t - entry.timestamp < cache_duration_hours

\* a faulty variant: a get removes every expired entry, not only its own
SearchCache_get_Sweep(c, t, query, filters) ==
  LET cache_key == get_cache_key(query, filters)
      fresh == {k \in DOMAIN c : IsFresh(c[k], t)}
  IN  [value |-> IF cache_key \in fresh
                 THEN <<c[cache_key].results>> ELSE <<>>,
       cache |-> [k \in fresh |-> c[k]]]

\* SearchCache.get: value is <<>> for None and <<results>> for a list;
\* cache is the cache after the call (an expired entry is deleted)
SearchCache_get(c, t, query, filters) ==
  LET cache_key == get_cache_key(query, filters)
  IN  IF cache_key \in DOMAIN c
      THEN IF IsFresh(c[cache_key], t)
           THEN [value |-> <<c[cache_key].results>>, cache |-> c]
           ELSE [value |-> <<>>,
                 cache |-> [k \in DOMAIN c \ {cache_key} |-> c[k]]]
      ELSE [value |-> <<>>, cache |-> c]

\* SearchCache.set: the cache after the call
SearchCache_set(c, t, query, results, filters) ==
  LET cache_key == get_cache_key(query, filters)
      entry == [results |-> results, timestamp |-> t,
                query |-> query, filters |-> filters]
  IN  [k \in DOMAIN c \cup {cache_key} |->
         IF k = cache_key THEN entry ELSE c[k]]

\* SearchCache.save_cache: the file holds every entry, the timestamp in
\* isoformat, which load_cache reads back with fromisoformat
save_cache(c) == c

\* SearchCache.load_cache over a file that save_cache wrote: json.load gives
\* the entries back and fromisoformat the timestamps that isoformat wrote
load_cache(file) == file

(***************************************************************************)
(* IntelligentSearch                                                        *)
(***************************************************************************)
\* A score in tenths of a point
Tenths(points) == 10 * points

row_to_result_dict(row, score) ==
  [fipe_id |-> row.FipeID,
   year |-> row.VehicleModelYear,
   brand |-> row.BrandName,
   model |-> row.VehicleName,
   abbreviation |-> row.Abreviacao,
   has_adas |-> (row.ADAS = Sim),
   windshield_adas |-> FALSE,
   bumper_adas |-> FALSE,
   calibration_type |-> row.TipoRegulagem,
   rearview_camera |-> FALSE,
   matrix_lights |-> FALSE,
   search_score |-> score]

\* how many elements of the list s satisfy Test
Count(s, Test(_)) == Cardinality({i \in DOMAIN s : Test(s[i])})

\* The relevance score of one row, in tenths, clamped to 100 points
calculate_relevance_score(query, row, numbers, brands) ==
  LET brand_name == upper(row.BrandName)
      by_brand == IF Contains(upper(query), brand_name) THEN Tenths(50) ELSE 0
      by_brands ==
        Tenths(40) * Count(brands, LAMBDA brand : Contains(brand_name, brand))
      vehicle_name == row.VehicleName
      by_model ==
        IF vehicle_name # <<>>
        THEN 6 * partial_ratio(upper(query), upper(vehicle_name))
        ELSE 0
      abbreviation == row.Abreviacao
      by_abbreviation ==
        IF abbreviation # <<>> /\ abbreviation # <<"n", "a", "n">>
        THEN 4 * ratio(upper(query), upper(abbreviation))
        ELSE 0
      vehicle_year == str(row.VehicleModelYear)
      by_year ==
        Tenths(30) * Count(numbers, LAMBDA num : Contains(vehicle_year, num))
      fipe_id == str(row.FipeID)
      by_fipe ==
        Tenths(25) * Count(numbers, LAMBDA num :
                             Len(num) >= 3 /\ Contains(fipe_id, num))
      by_adas == IF row.ADAS = Sim THEN Tenths(10) ELSE 0
      combined_text ==
        upper(brand_name \o <<" ">> \o vehicle_name \o <<" ">> \o abbreviation)
      by_combined ==
        IF strip(combined_text) # <<>>
        THEN 3 * partial_ratio(upper(query), combined_text)
        ELSE 0
      score == by_brand + by_brands + by_model + by_abbreviation + by_year
                 + by_fipe + by_adas + by_combined
  IN  Min(score, Tenths(100))

\* the relevance score of every row of the catalog for every normalized
\* query of the model, with the numbers and brands _search_by_text extracts
\* from the query; computed once
Relevance ==
  [query \in {Normalized[q] : q \in Queries \cup DigitQueries} \ {<<>>} |->
     [row \in Catalog \cup {ROW_NOCALIB} |->
        calculate_relevance_score(query, row, extract_numbers(query),
                                  extract_brands(query))]]

\* a faulty variant: a sort that is not stable, a result going before the
\* results of equal score that were there
RECURSIVE InsertByScore_Unstable(_, _)
InsertByScore_Unstable(sorted, r) ==
  IF sorted = <<>> THEN <<r>>
  ELSE IF Head(sorted).search_score > r.search_score
       THEN <<Head(sorted)>> \o InsertByScore_Unstable(Tail(sorted), r)
       ELSE <<r>> \o sorted

\* results.sort(key=search_score, reverse=True): stable, so results of equal
\* score keep their order
RECURSIVE InsertByScore(_, _)
InsertByScore(sorted, r) ==
  IF sorted = <<>> THEN <<r>>
  ELSE IF Head(sorted).search_score >= r.search_score
       THEN <<Head(sorted)>> \o InsertByScore(Tail(sorted), r)
       ELSE <<r>> \o sorted

RECURSIVE sort_by_score(_)
sort_by_score(results) ==
  IF results = <<>> THEN <<>>
  ELSE InsertByScore(sort_by_score(SubSeq(results, 1, Len(results) - 1)),
                     results[Len(results)])

\* the result dicts of the rows of d whose score passes the threshold
RECURSIVE ScoredRows(_, _)
ScoredRows(d, query) ==
  IF d = <<>> THEN <<>>
  ELSE LET score == Relevance[query][Head(d)]
       IN  (IF score > Tenths(relevance_threshold)
            THEN <<row_to_result_dict(Head(d), score)>> ELSE <<>>)
             \o ScoredRows(Tail(d), query)

\* a faulty variant: the rows are not tested against the threshold
search_by_text_NoThreshold(d, query, filters, max_results) ==
  IF d = <<>> THEN <<>>
  ELSE Take(sort_by_score([i \in DOMAIN d |->
                             row_to_result_dict(d[i], Relevance[query][d[i]])]),
            max_results)

search_by_text(d, query, filters, max_results) ==
  IF d = <<>> THEN <<>>
  ELSE Take(sort_by_score(ScoredRows(d, query)), max_results)

\* a faulty variant: only the first row with the id is returned
FipeMatches_FirstOnly(d, fipe_int) ==
  LET hits == SelectSeq(d, LAMBDA row : row.FipeID = fipe_int)
  IN  IF hits = <<>> THEN <<>>
      ELSE <<row_to_result_dict(Head(hits), Tenths(100))>>

RECURSIVE FipeMatches(_, _)
FipeMatches(d, fipe_int) ==
  IF d = <<>> THEN <<>>
  ELSE (IF Head(d).FipeID = fipe_int
        THEN <<row_to_result_dict(Head(d), Tenths(100))>> ELSE <<>>)
         \o FipeMatches(Tail(d), fipe_int)

\* a faulty variant: when no row has the id, the first row is returned for it
search_by_fipe_AnyRow(d, fipe_id) ==
  IF d = <<>> THEN <<>>
  ELSE IF FipeMatches(d, int(fipe_id)) = <<>>
       THEN <<row_to_result_dict(Head(d), Tenths(100))>>
       ELSE FipeMatches(d, int(fipe_id))

search_by_fipe(d, fipe_id) ==
  IF d = <<>> THEN <<>> ELSE FipeMatches(d, int(fipe_id))

\* a faulty variant: the has_adas filter tested for truth, as the others are, so
\* that has_adas = False filters nothing
ApplyFilter_AdasByTruth(results, filter_key, filter_value) ==
  CASE filter_key = "brand" /\ filter_value # <<>> ->
         SelectSeq(results, LAMBDA r :
                     Contains(upper(r.brand), upper(filter_value)))
    [] filter_key = "year" /\ filter_value # 0 ->
         SelectSeq(results, LAMBDA r : str(filter_value) = str(r.year))
    [] filter_key = "has_adas" /\ filter_value = TRUE ->
         SelectSeq(results, LAMBDA r : r.has_adas = filter_value)
    [] filter_key = "calibration_type" /\ filter_value # <<>> ->
         SelectSeq(results, LAMBDA r :
                     Contains(lower(r.calibration_type), lower(filter_value)))
    [] OTHER -> results

\* one turn of the loop of _apply_filters
ApplyFilter(results, filter_key, filter_value) ==
  CASE filter_key = "brand" /\ filter_value # <<>> ->
         SelectSeq(results, LAMBDA r :
                     Contains(upper(r.brand), upper(filter_value)))
    [] filter_key = "year" /\ filter_value # 0 ->
         SelectSeq(results, LAMBDA r : str(filter_value) = str(r.year))
    [] filter_key = "has_adas" ->
         SelectSeq(results, LAMBDA r : r.has_adas = filter_value)
    [] filter_key = "calibration_type" /\ filter_value # <<>> ->
         SelectSeq(results, LAMBDA r :
                     Contains(lower(r.calibration_type), lower(filter_value)))
    [] OTHER -> results

RECURSIVE apply_filters(_, _)
apply_filters(results, filters) ==
  IF filters = <<>> THEN results
  ELSE apply_filters(ApplyFilter(results, Head(filters)[1], Head(filters)[2]),
                     Tail(filters))

\* a faulty variant: the new entry is put last and the head of the list kept
log_search_KeepOldest(last_searches, t, query, results_count, method) ==
  Take(last_searches
         \o <<[timestamp |-> t, query |-> query,
               results_count |-> results_count, method |-> method]>>,
       log_limit)

\* _log_search: the new entry first, the list cut to the newest log_limit
log_search(last_searches, t, query, results_count, method) ==
  Take(<<[timestamp |-> t, query |-> query,
          results_count |-> results_count, method |-> method]>>
         \o last_searches,
       log_limit)

\* IntelligentSearch.search: what the call returns and the state it leaves.
\* The two readings of the clock on the computed path fall in the same hour,
\* so the search time it measures is 0 hours.
search(d, c, file, analytics, t, query, filters, max_results) ==
  LET counted == [analytics EXCEPT !.total_searches = @ + 1]
      got == SearchCache_get(c, t, query, filters)
      cached_results == got.value
  IN  IF cached_results # <<>> /\ cached_results[1] # <<>>
      THEN [results |-> cached_results[1],
            stats |-> [search_time_ms |-> 0,
                       total_results |-> Len(cached_results[1]),
                       cache_hit |-> TRUE,
                       search_method |-> "cache"],
            cache |-> got.cache,
            cache_file |-> file,
            stored |-> FALSE,
            analytics |-> [counted EXCEPT !.cache_hits = @ + 1]]
      ELSE
        LET normalized_query == Normalized[query]
        IN  IF strip(normalized_query) = <<>>
            THEN [results |-> <<>>,
                  stats |-> [error |-> "Query vazia apos normalizacao"],
                  cache |-> got.cache,
                  cache_file |-> file,
                  stored |-> FALSE,
                  analytics |-> counted]
            ELSE
              LET fipe_results ==
                    IF isdigit(normalized_query)
                    THEN search_by_fipe(d, normalized_query) ELSE <<>>
                  by_fipe == fipe_results # <<>>
                  found ==
                    IF by_fipe THEN fipe_results
                    ELSE search_by_text(d, normalized_query, filters, max_results)
                  search_method == IF by_fipe THEN "fipe_id" ELSE "text_search"
                  filtered ==
                    IF filters # <<>> THEN apply_filters(found, filters) ELSE found
                  search_results == Take(filtered, max_results)
                  stored ==
                    SearchCache_set(got.cache, t, query, search_results, filters)
              IN  [results |-> search_results,
                   stats |-> [search_time_ms |-> t - t,
                              total_results |-> Len(search_results),
                              cache_hit |-> FALSE,
                              search_method |-> search_method,
                              query_normalized |-> normalized_query],
                   cache |-> stored,
                   cache_file |-> save_cache(stored),
                   stored |-> TRUE,
                   analytics |->
                     [counted EXCEPT !.last_searches =
                        log_search(@, t, query, Len(search_results),
                                   search_method)]]

\* _apply_filters raises in the comprehension of the filter: .upper() and
\* .lower() are called on the field of each result, and a field that is
\* None or NaN has neither
FilterRaises(results, filter_key, filter_value) ==
  \/ /\ filter_key = "brand"
     /\ filter_value # <<>>
     /\ \E i \in DOMAIN results : results[i].brand = Missing
  \/ /\ filter_key = "calibration_type"
     /\ filter_value # <<>>
     /\ \E i \in DOMAIN results : results[i].calibration_type = Missing

\* _apply_filters raises in one of its filters, taken in order
RECURSIVE apply_filters_raises(_, _)
apply_filters_raises(results, filters) ==
  /\ filters # <<>>
  /\ \/ FilterRaises(results, Head(filters)[1], Head(filters)[2])
     \/ apply_filters_raises(
          ApplyFilter(results, Head(filters)[1], Head(filters)[2]),
          Tail(filters))

\* search raises: nothing between the call of _apply_filters and the caller
\* catches the exception
search_raises(d, c, t, query, filters, max_results) ==
  LET got == SearchCache_get(c, t, query, filters)
      cached_results == got.value
      normalized_query == Normalized[query]
      fipe_results ==
        IF isdigit(normalized_query)
        THEN search_by_fipe(d, normalized_query) ELSE <<>>
      found ==
        IF fipe_results # <<>> THEN fipe_results
        ELSE search_by_text(d, normalized_query, filters, max_results)
  IN  /\ ~(cached_results # <<>> /\ cached_results[1] # <<>>)
      /\ strip(normalized_query) # <<>>
      /\ filters # <<>>
      /\ apply_filters_raises(found, filters)

\* criteria.get(key) is set and truthy
Given(criteria, key) == key \in DOMAIN criteria

\* the rows of d that advanced_search keeps: each criterion given narrows
\* what the one before left
AdvancedFiltered(d, criteria) ==
  LET by_brand ==
        IF Given(criteria, "brand") /\ criteria.brand # <<>>
        THEN SelectSeq(d, LAMBDA row :
               Contains(upper(row.BrandName), upper(criteria.brand)))
        ELSE d
      by_year ==
        IF Given(criteria, "year_range")
        THEN SelectSeq(by_brand, LAMBDA row :
               /\ row.VehicleModelYear >= criteria.year_range[1]
               /\ row.VehicleModelYear <= criteria.year_range[2])
        ELSE by_brand
      by_adas ==
        IF Given(criteria, "has_adas")
        THEN SelectSeq(by_year, LAMBDA row :
               row.ADAS = (IF criteria.has_adas THEN Sim ELSE Nao))
        ELSE by_year
  IN  IF Given(criteria, "calibration_type") /\ criteria.calibration_type # <<>>
      THEN SelectSeq(by_adas, LAMBDA row :
             Contains(lower(row.TipoRegulagem),
                      lower(criteria.calibration_type)))
      ELSE by_adas

\* a faulty variant: every row kept is returned
advanced_search_Uncapped(d, criteria) ==
  IF d = <<>> THEN <<>>
  ELSE LET kept == AdvancedFiltered(d, criteria)
       IN  [i \in DOMAIN kept |->
              row_to_result_dict(kept[i], Tenths(advanced_score))]

\* IntelligentSearch.advanced_search
advanced_search(d, criteria) ==
  IF d = <<>> THEN <<>>
  ELSE LET kept == AdvancedFiltered(d, criteria)
           results == [i \in DOMAIN kept |->
                         row_to_result_dict(kept[i], Tenths(advanced_score))]
       IN  Take(results, advanced_limit)

\* the calls of SearchCache.get and SearchCache.set on their own
CacheQueries == {Q_BMW118, Q_bmw118, Q_BMW_118}

CacheFilters == {F_brand_adas, F_adas_brand}

CacheResults ==
  {<<>>, <<row_to_result_dict(ROW_BMW118, Tenths(100))>>}

(***************************************************************************)
(* DataFrames of src/modules/vehicle_db.py.  A cell is a number, a string   *)
(* or NaN; a DataFrame is its set of columns and its rows, each row giving  *)
(* a cell to every column.                                                  *)
(***************************************************************************)
NaN == [t |-> "nan", n |-> 0, s |-> <<>>]

Num(n) == [t |-> "num", n |-> n, s |-> <<>>]

Str(s) == [t |-> "str", n |-> 0, s |-> s]

isna(cell) == cell.t = "nan"

\* pd.DataFrame(): no column, no row
EmptyFrame == [columns |-> {}, rows |-> <<>>]

\* the cells of a column, in row order
Column(frame, col) == [i \in DOMAIN frame.rows |-> frame.rows[i][col]]

\* the column has dtype object: it holds strings (a column of numbers and
\* NaN only is int64 or float64)
IsObject(frame, col) ==
  \E i \in DOMAIN frame.rows : frame.rows[i][col].t = "str"

\* the column has a numeric dtype
IsNumeric(frame, col) == ~IsObject(frame, col)

\* a column set to the cells given, one for each row
WithColumn(frame, col, cells) ==
  [frame EXCEPT !.columns = @ \cup {col},
                !.rows = [i \in DOMAIN @ |->
                            [c \in DOMAIN @[i] \cup {col} |->
                               IF c = col THEN cells[i] ELSE @[i][c]]]]

\* the text of a CSV file: a header and lines of text cells, an empty cell
\* being a missing value; or a source that cannot be read or parsed
Malformed == [malformed |-> TRUE, columns |-> {}, rows |-> <<>>]

\* pd.read_csv: a column whose cells are all numbers or empty is numeric,
\* any other column holds its cells as strings; an empty cell is NaN
read_csv_cell(text, numeric) ==
  IF text = <<>> THEN NaN
  ELSE IF numeric THEN Num(int(text)) ELSE Str(text)

read_csv(source) ==
  LET numeric(col) ==
        \A i \in DOMAIN source.rows :
          source.rows[i][col] = <<>> \/ isdigit(source.rows[i][col])
  IN  [columns |-> source.columns,
       rows |-> [i \in DOMAIN source.rows |->
                   [col \in source.columns |->
                      read_csv_cell(source.rows[i][col], numeric(col))]]]

(***************************************************************************)
(* DataValidator                                                            *)
(***************************************************************************)
required_columns ==
  <<"FipeID", "BrandName", "VehicleName", "VehicleModelYear", "ADAS">>

\* DataValidator.known_brands
validator_known_brands ==
  { <<"B", "M", "W">>,
    <<"M", "E", "R", "C", "E", "D", "E", "S", "-", "B", "E", "N", "Z">>,
    <<"A", "U", "D", "I">>,
    <<"V", "O", "L", "K", "S", "W", "A", "G", "E", "N">>,
    <<"V", "O", "L", "V", "O">>,
    <<"T", "O", "Y", "O", "T", "A">>,
    <<"F", "O", "R", "D">>,
    <<"H", "Y", "U", "N", "D", "A", "I">>,
    <<"J", "E", "E", "P">>,
    <<"L", "A", "N", "D", " ", "R", "O", "V", "E", "R">>,
    <<"P", "E", "U", "G", "E", "O", "T">>,
    <<"R", "E", "N", "A", "U", "L", "T">>,
    <<"F", "I", "A", "T">>,
    <<"N", "I", "S", "S", "A", "N">>,
    <<"H", "O", "N", "D", "A">>,
    <<"M", "A", "Z", "D", "A">>,
    <<"S", "U", "B", "A", "R", "U">>,
    <<"M", "I", "T", "S", "U", "B", "I", "S", "H", "I">>,
    <<"L", "E", "X", "U", "S">>,
    <<"I", "N", "F", "I", "N", "I", "T", "I">>,
    <<"P", "O", "R", "S", "C", "H", "E">>,
    <<"F", "E", "R", "R", "A", "R", "I">>,
    <<"L", "A", "M", "B", "O", "R", "G", "H", "I", "N", "I">>,
    <<"B", "E", "N", "T", "L", "E", "Y">>,
    <<"R", "O", "L", "L", "S", "-", "R", "O", "Y", "C", "E">>,
    <<"S", "C", "A", "N", "I", "A">>,
    <<"V", "O", "L", "V", "O", " ", "C", "A", "M", "I", "N", "H", "O", "E", "S">> }

valid_adas_values ==
  {Str(<<"S", "i", "m">>), Str(<<"N", "a~", "o">>), Str(<<"s", "i", "m">>), Str(<<"n", "a~", "o">>), NaN}

\* datetime.now().year
current_year == 2026

\* the entries of the lists errors and warnings of a report
Entry(kind, columns, count) ==
  [kind |-> kind, columns |-> columns, count |-> count]

\* the elements of s that are in keep, in order
RECURSIVE SelectSeqOf(_, _)
SelectSeqOf(s, keep) ==
  IF s = <<>> THEN <<>>
  ELSE (IF Head(s) \in keep THEN <<Head(s)>> ELSE <<>>)
         \o SelectSeqOf(Tail(s), keep)

\* validation_report as validate_dataframe creates it
NewReport(frame) ==
  [total_rows |-> Len(frame.rows),
   validation_passed |-> TRUE,
   errors |-> <<>>,
   warnings |-> <<>>,
   missing_data_percentage |-> <<>>,
   data_quality_score |-> 0]

\* a faulty variant: a missing column is not reported
validate_structure_ColumnsUnchecked(frame, report) ==
  IF frame.rows = <<>>
  THEN [report EXCEPT !.errors = Append(@, Entry("empty", <<>>, 0)),
                      !.validation_passed = FALSE]
  ELSE report

\* _validate_structure
validate_structure(frame, report) ==
  LET missing_columns ==
        SelectSeqOf(required_columns, Range(required_columns) \ frame.columns)
      r1 == IF missing_columns # <<>>
            THEN [report EXCEPT
                    !.errors = Append(@, Entry("missing_columns",
                                               missing_columns, 0)),
                    !.validation_passed = FALSE]
            ELSE report
  IN  IF frame.rows = <<>>
      THEN [r1 EXCEPT !.errors = Append(@, Entry("empty", <<>>, 0)),
                      !.validation_passed = FALSE]
      ELSE r1

\* Series.isna().sum()
MissingCount(frame, col) ==
  Cardinality({i \in DOMAIN frame.rows : isna(frame.rows[i][col])})

\* Series.duplicated().sum(): the cells equal to a cell of an earlier row
DuplicatedCount(frame, col) ==
  Cardinality({i \in DOMAIN frame.rows :
                 \E j \in 1..(i - 1) : frame.rows[j][col] = frame.rows[i][col]})

\* df.isna().sum().sum() over the columns given
RECURSIVE MissingCells(_, _)
MissingCells(frame, columns) ==
  IF columns = {} THEN 0
  ELSE LET col == CHOOSE c \in columns : TRUE
       IN  MissingCount(frame, col) + MissingCells(frame, columns \ {col})

\* round(x, 2) of the percentage missing / total, in hundredths of a point
RoundedPercentage(missing, total) ==
  (2 * missing * 10000 + total) \div (2 * total)

\* the warnings of the loop over validation_rules, column after column
RECURSIVE MissingWarnings(_, _)
MissingWarnings(frame, columns) ==
  IF columns = <<>> THEN <<>>
  ELSE (IF Head(columns) \in frame.columns
           /\ MissingCount(frame, Head(columns)) > 0
        THEN <<Entry("missing_values", <<Head(columns)>>,
                     MissingCount(frame, Head(columns)))>>
        ELSE <<>>)
         \o MissingWarnings(frame, Tail(columns))

\* _validate_data_integrity; the division by total_cells raises over a
\* DataFrame without a cell
validate_data_integrity(frame, report) ==
  LET has_fipe == "FipeID" \in frame.columns
      duplicate_fipe == IF has_fipe THEN DuplicatedCount(frame, "FipeID") ELSE 0
      invalid_fipe == IF has_fipe THEN MissingCount(frame, "FipeID") ELSE 0
      r1 == IF duplicate_fipe > 0
            THEN [report EXCEPT
                    !.warnings = Append(@, Entry("duplicate_fipe", <<>>,
                                                 duplicate_fipe))]
            ELSE report
      r2 == IF invalid_fipe > 0
            THEN [r1 EXCEPT
                    !.errors = Append(@, Entry("invalid_fipe", <<>>,
                                               invalid_fipe))]
            ELSE r1
      r3 == [r2 EXCEPT
               !.warnings = @ \o MissingWarnings(frame, required_columns)]
      total_cells == Len(frame.rows) * Cardinality(frame.columns)
      missing_cells == MissingCells(frame, frame.columns)
  IN  IF total_cells = 0
      THEN [report |-> r3, raised |-> TRUE]
      ELSE [report |->
              [r3 EXCEPT !.missing_data_percentage =
                           <<RoundedPercentage(missing_cells, total_cells)>>],
            raised |-> FALSE]

\* the non-missing cells of a column
DropNa(frame, col) ==
  {frame.rows[i][col] : i \in {j \in DOMAIN frame.rows :
                                 ~isna(frame.rows[j][col])}}

\* _validate_domain_rules; brand.upper() raises for a brand that is a
\* number, and the comparison of the years raises for years that are strings
validate_domain_rules(frame, report) ==
  LET has_brand == "BrandName" \in frame.columns
      has_year == "VehicleModelYear" \in frame.columns
      has_adas == "ADAS" \in frame.columns
      brand_raises ==
        has_brand /\ \E b \in DropNa(frame, "BrandName") : b.t # "str"
      unknown_brands ==
        IF has_brand
        THEN {b \in DropNa(frame, "BrandName") :
                strip(upper(b.s)) \notin {upper(k) : k \in validator_known_brands}}
        ELSE {}
      r1 == IF unknown_brands # {}
            THEN [report EXCEPT
                    !.warnings = Append(@, Entry("unknown_brands", <<>>,
                                                 Cardinality(unknown_brands)))]
            ELSE report
      year_raises == has_year /\ IsObject(frame, "VehicleModelYear")
      Years(Test(_)) ==
        IF has_year
        THEN Cardinality({i \in DOMAIN frame.rows :
                            /\ frame.rows[i]["VehicleModelYear"].t = "num"
                            /\ Test(frame.rows[i]["VehicleModelYear"].n)})
        ELSE 0
      IsFuture(y) == y > current_year + 2
      IsOld(y) == y < 2000
      r2 == IF Years(IsFuture) > 0
            THEN [r1 EXCEPT
                    !.warnings = Append(@, Entry("future_years", <<>>,
                                                 Years(IsFuture)))]
            ELSE r1
      r3 == IF Years(IsOld) > 0
            THEN [r2 EXCEPT
                    !.warnings = Append(@, Entry("old_years", <<>>,
                                                 Years(IsOld)))]
            ELSE r2
      invalid_adas ==
        IF has_adas
        THEN Cardinality({i \in DOMAIN frame.rows :
                            frame.rows[i]["ADAS"] \notin valid_adas_values})
        ELSE 0
      r4 == IF invalid_adas > 0
            THEN [r3 EXCEPT
                    !.errors = Append(@, Entry("invalid_adas", <<>>,
                                               invalid_adas))]
            ELSE r3
  IN  IF brand_raises THEN [report |-> report, raised |-> TRUE]
      ELSE IF year_raises THEN [report |-> r1, raised |-> TRUE]
      ELSE [report |-> r4, raised |-> FALSE]

Clamp(lo, x, hi) == IF x < lo THEN lo ELSE IF x > hi THEN hi ELSE x

\* _calculate_quality_score, in hundredths of a point
calculate_quality_score(report) ==
  LET missing_percentage ==
        IF report.missing_data_percentage = <<>> THEN 0
        ELSE report.missing_data_percentage[1]
  IN  Clamp(0,
            10000 - Len(report.errors) * 2000 - Len(report.warnings) * 500
              - missing_percentage * 2,
            10000)

\* the except clause of validate_dataframe
Failed(report) ==
  [report EXCEPT !.errors = Append(@, Entry("exception", <<>>, 0)),
                 !.validation_passed = FALSE]

validate_dataframe(frame) ==
  LET r1 == validate_structure(frame, NewReport(frame))
      s2 == validate_data_integrity(frame, r1)
      s3 == validate_domain_rules(frame, s2.report)
  IN  IF s2.raised THEN Failed(s2.report)
      ELSE IF s3.raised THEN Failed(s3.report)
      ELSE [s3.report EXCEPT
              !.data_quality_score = calculate_quality_score(s3.report)]

\* a faulty variant: the case of every letter is swapped
capitalize_Swapcase(s) ==
  [i \in DOMAIN s |->
     IF s[i] \in Range(LowerLetters) THEN UpperMap[s[i]] ELSE LowerMap[s[i]]]

\* str.capitalize()
capitalize(s) ==
  [i \in DOMAIN s |-> IF i = 1 THEN UpperMap[s[i]] ELSE LowerMap[s[i]]]

\* Series.str.<method>(): text, what the method makes of the string of the
\* cell, where the cell is a string, NaN where it is not
StrMethod(cell, text) == IF cell.t = "str" THEN Str(text) ELSE NaN

\* the .str accessor raises for a column that does not hold strings
StrAccessorRaises(frame, col) ==
  frame.rows # <<>> /\ IsNumeric(frame, col)

\* brand_mappings, in the order of the loop
brand_mappings ==
  << <<<<"M", "E", "R", "C", "E", "D", "E", "S">>, <<"M", "E", "R", "C", "E", "D", "E", "S", "-", "B", "E", "N", "Z">>>>,
     <<<<"M", "E", "R", "C", "E", "D", "E", "S", " ", "B", "E", "N", "Z">>, <<"M", "E", "R", "C", "E", "D", "E", "S", "-", "B", "E", "N", "Z">>>>,
     <<<<"V", "W">>, <<"V", "O", "L", "K", "S", "W", "A", "G", "E", "N">>>>,
     <<<<"R", "A", "N", "G", "E", " ", "R", "O", "V", "E", "R">>, <<"L", "A", "N", "D", " ", "R", "O", "V", "E", "R">>>> >>

\* Series.replace(old_name, new_name), one mapping after the other
RECURSIVE ReplaceBrand(_, _)
ReplaceBrand(cell, mappings) ==
  IF mappings = <<>> THEN cell
  ELSE ReplaceBrand(IF cell = Str(Head(mappings)[1])
                    THEN Str(Head(mappings)[2]) ELSE cell,
                    Tail(mappings))

\* Series.replace({'sim': 'Sim', 'não': 'Não', 'nao': 'Não'})
ReplaceAdas(cell) ==
  IF cell = Str(<<"s", "i", "m">>) THEN Str(<<"S", "i", "m">>)
  ELSE IF cell \in {Str(<<"n", "a~", "o">>), Str(<<"n", "a", "o">>)} THEN Str(<<"N", "a~", "o">>)
  ELSE cell

\* pd.to_numeric(errors='coerce'), one cell
to_numeric(cell) ==
  IF cell.t = "str"
  THEN IF isdigit(cell.s) THEN Num(int(cell.s)) ELSE NaN
  ELSE cell

\* Series.fillna('')
fillna(cell) == IF isna(cell) THEN Str(<<>>) ELSE cell

\* the steps of clean_dataframe on df_clean, column after column; a step
\* that raises leaves df_clean as the steps before it made it
CleanBrandName(frame) ==
  WithColumn(frame, "BrandName",
             [i \in DOMAIN frame.rows |->
                LET cell == frame.rows[i]["BrandName"]
                IN  ReplaceBrand(StrMethod(cell, upper(strip(cell.s))),
                                 brand_mappings)])

CleanADAS(frame) ==
  WithColumn(frame, "ADAS",
             [i \in DOMAIN frame.rows |->
                LET cell == frame.rows[i]["ADAS"]
                IN  ReplaceAdas(StrMethod(cell, capitalize(strip(cell.s))))])

CleanVehicleName(frame) ==
  WithColumn(frame, "VehicleName",
             [i \in DOMAIN frame.rows |->
                LET cell == frame.rows[i]["VehicleName"]
                IN  StrMethod(cell, strip(cell.s))])

CleanNumeric(frame, col) ==
  WithColumn(frame, col,
             [i \in DOMAIN frame.rows |-> to_numeric(frame.rows[i][col])])

AddSearchText(frame) ==
  WithColumn(frame, "search_text",
             [i \in DOMAIN frame.rows |->
                LET text == fillna(frame.rows[i]["BrandName"]).s \o <<" ">>
                              \o fillna(frame.rows[i]["VehicleName"]).s
                              \o <<" ">>
                IN  Str(strip(upper(text)))])

\* clean_dataframe: the DataFrame given, as the call leaves it, and the
\* DataFrame returned
clean_dataframe(df_) ==
  LET df_clean == df_
      has(col) == col \in df_clean.columns
      c1 == IF has("BrandName") THEN CleanBrandName(df_clean) ELSE df_clean
      c2 == IF has("ADAS") THEN CleanADAS(c1) ELSE c1
      c3 == IF has("VehicleName") THEN CleanVehicleName(c2) ELSE c2
      c4 == IF has("VehicleModelYear")
            THEN CleanNumeric(c3, "VehicleModelYear") ELSE c3
      c5 == IF has("FipeID") THEN CleanNumeric(c4, "FipeID") ELSE c4
      c6 == IF has("BrandName") /\ has("VehicleName")
            THEN AddSearchText(c5) ELSE c5
      returned ==
        IF has("BrandName") /\ StrAccessorRaises(df_clean, "BrandName")
        THEN df_clean
        ELSE IF has("ADAS") /\ StrAccessorRaises(c1, "ADAS") THEN c1
        ELSE IF has("VehicleName") /\ StrAccessorRaises(c2, "VehicleName")
             THEN c2
        ELSE c6
  IN  [df |-> df_, returned |-> returned]

\* the lines of the CSV files: FipeID, BrandName, VehicleName,
\* VehicleModelYear, ADAS
CsvLine(fipe, brand, name, year, adas) ==
  [col \in Range(required_columns) |->
     CASE col = "FipeID" -> fipe
       [] col = "BrandName" -> brand
       [] col = "VehicleName" -> name
       [] col = "VehicleModelYear" -> year
       [] col = "ADAS" -> adas]

\* a row without fault
CSV_BMW ==
  CsvLine(<<"9", "2", "9", "8", "3">>,
          <<"B", "M", "W">>,
          <<"1", "1", "8", "i">>,
          <<"2", "0", "2", "3">>,
          <<"S", "i", "m">>)

\* a brand under an alias, padded texts, an old year
CSV_VW ==
  CsvLine(<<"8", "1", "2", "3", "4">>,
          <<" ", "v", "w", " ">>,
          <<" ", "G", "o", "l", "f", " ">>,
          <<"1", "9", "9", "9">>,
          <<"s", "i", "m">>)

\* the id of CSV_BMW again, a year too far ahead
CSV_MERCEDES ==
  CsvLine(<<"9", "2", "9", "8", "3">>,
          <<"m", "e", "r", "c", "e", "d", "e", "s", " ", "b", "e", "n", "z">>,
          <<"C", "1", "8", "0">>,
          <<"2", "0", "3", "1">>,
          <<"n", "a", "o">>)

\* every cell missing
CSV_MISSING ==
  CsvLine(<<>>,
          <<>>,
          <<>>,
          <<>>,
          <<>>)

\* an id and a year that are no numbers, an unknown brand and ADAS value
CSV_TESLA ==
  CsvLine(<<"9", "x">>,
          <<"T", "e", "s", "l", "a">>,
          <<"S">>,
          <<"2", "0", "x">>,
          <<"x">>)

\* a brand and a name that are numbers
CSV_NUMBERS ==
  CsvLine(<<"7", "0", "0", "0", "1">>,
          <<"1", "1", "8">>,
          <<"3", "2", "0">>,
          <<"2", "0", "2", "4">>,
          <<"N", "A~", "O">>)

CsvLines == {CSV_BMW, CSV_VW, CSV_MERCEDES, CSV_MISSING, CSV_TESLA, CSV_NUMBERS}

MaxCsvLines == 2

\* a CSV file of the lines given, without the columns dropped
CsvFile(lines, dropped) ==
  [columns |-> Range(required_columns) \ dropped,
   rows |-> [i \in DOMAIN lines |->
               [col \in Range(required_columns) \ dropped |-> lines[i][col]]]]

\* the CSV files: one to MaxCsvLines lines, every column there or one of the
\* required columns missing
CsvFiles ==
  {CsvFile(lines, dropped) :
     lines \in UNION {[1..n -> CsvLines] : n \in 1..MaxCsvLines},
     dropped \in {{}} \cup {{col} : col \in Range(required_columns)}}

\* the DataFrames read from them
Frames == {read_csv(source) : source \in CsvFiles}

(***************************************************************************)
(* VehicleIndex                                                             *)
(***************************************************************************)
\* the rows whose cell of column col is the cell given
RowsWith(frame, col, cell) ==
  {i \in DOMAIN frame.rows : frame.rows[i][col] = cell}

\* DataFrame.to_dict('records') of the rows given, in row order
RECURSIVE Records(_, _)
Records(frame, rows) ==
  IF rows = {} THEN <<>>
  ELSE LET first == CHOOSE i \in rows : \A j \in rows : i <= j
       IN  <<frame.rows[first]>> \o Records(frame, rows \ {first})

\* the key is in the FipeID column more than once
HasDuplicateFipe(frame) ==
  \E i, j \in DOMAIN frame.rows :
    i # j /\ frame.rows[i]["FipeID"] = frame.rows[j]["FipeID"]

\* df.set_index('FipeID').to_dict('index') where it returns: FipeID -> the
\* other cells of the row, the last row of a FipeID replacing the ones before
fipe_index(frame) ==
  [key \in {frame.rows[i]["FipeID"] : i \in DOMAIN frame.rows} |->
     LET last == CHOOSE i \in RowsWith(frame, "FipeID", key) :
                   \A j \in RowsWith(frame, "FipeID", key) : j <= i
     IN  [col \in frame.columns \ {"FipeID"} |-> frame.rows[last][col]]]

\* the index of a column: each value that is not NaN -> the records with it
records_index(frame, col) ==
  [key \in DropNa(frame, col) |->
     Records(frame, RowsWith(frame, col, key))]

\* int(year) raises for a year that is a string but no number
IntRaises(cell) == cell.t = "str" /\ ~isdigit(cell.s)

\* int(year)
IntOf(cell) == IF cell.t = "str" THEN int(cell.s) ELSE cell.n

\* the index by year, as the loop over the years leaves it: the years in
\* the order of their first row, up to the first one for which int raises
YearsBeforeRaise(frame) ==
  {frame.rows[i]["VehicleModelYear"] :
     i \in {k \in DOMAIN frame.rows :
              /\ ~isna(frame.rows[k]["VehicleModelYear"])
              /\ \A j \in 1..k : ~IntRaises(frame.rows[j]["VehicleModelYear"])}}

year_index(frame) ==
  [year \in {IntOf(cell) : cell \in YearsBeforeRaise(frame)} |->
     Records(frame,
             UNION {RowsWith(frame, "VehicleModelYear", cell) :
                      cell \in {c \in YearsBeforeRaise(frame) : IntOf(c) = year}})]

YearRaises(frame) ==
  \E i \in DOMAIN frame.rows : IntRaises(frame.rows[i]["VehicleModelYear"])

\* self.indexes without an entry
NoIndexes == [fipe |-> <<>>, brand |-> <<>>, year |-> <<>>, adas |-> <<>>]

\* VehicleIndex(df): self.indexes after create_indexes.  to_dict('index')
\* over a FipeID column with a value twice raises ValueError in the pandas
\* releases that check the index for uniqueness (unique_checked) and lets
\* the last row win in the others; what is raised in create_indexes ends it
\* with the indexes built so far
VehicleIndex(frame, unique_checked) ==
  LET has(col) == col \in frame.columns
      i1 == IF has("FipeID")
            THEN [NoIndexes EXCEPT !.fipe = <<fipe_index(frame)>>]
            ELSE NoIndexes
      i2 == IF has("BrandName")
            THEN [i1 EXCEPT !.brand = <<records_index(frame, "BrandName")>>]
            ELSE i1
      i3 == IF has("VehicleModelYear")
            THEN [i2 EXCEPT !.year = <<year_index(frame)>>]
            ELSE i2
      i4 == IF has("ADAS")
            THEN [i3 EXCEPT !.adas = <<records_index(frame, "ADAS")>>]
            ELSE i3
  IN  IF has("FipeID") /\ HasDuplicateFipe(frame) /\ unique_checked
      THEN NoIndexes
      ELSE IF has("VehicleModelYear") /\ YearRaises(frame) THEN i3
      ELSE i4

\* the indexes that VehicleIndex(df) may hold, whatever the pandas release
VehicleIndexes(frame) ==
  {VehicleIndex(frame, unique_checked) : unique_checked \in BOOLEAN}

\* VehicleIndex.get_by_fipe: None is <<>>, a record r is <<r>>
get_by_fipe(indexes, fipe_id) ==
  IF indexes.fipe # <<>> /\ Num(fipe_id) \in DOMAIN indexes.fipe[1]
  THEN <<indexes.fipe[1][Num(fipe_id)]>>
  ELSE <<>>

\* VehicleIndex.get_by_brand
get_by_brand(indexes, brand) ==
  IF indexes.brand # <<>> /\ Str(upper(brand)) \in DOMAIN indexes.brand[1]
  THEN indexes.brand[1][Str(upper(brand))]
  ELSE <<>>

\* VehicleIndex.get_by_year
get_by_year(indexes, year) ==
  IF indexes.year # <<>> /\ year \in DOMAIN indexes.year[1]
  THEN indexes.year[1][year]
  ELSE <<>>

\* VehicleDatabase.get_vehicle_by_fipe, get_vehicles_by_brand and
\* get_vehicles_by_year, index being self.index (<<>> is None)
get_vehicle_by_fipe(index, fipe_id) ==
  IF index # <<>> THEN get_by_fipe(index[1], fipe_id) ELSE <<>>

get_vehicles_by_brand(index, brand) ==
  IF index # <<>> THEN get_by_brand(index[1], brand) ELSE <<>>

get_vehicles_by_year(index, year) ==
  IF index # <<>> THEN get_by_year(index[1], year) ELSE <<>>

(***************************************************************************)
(* BoschIntegration (src/modules/bosch_api.py).  A JSON value that stands   *)
(* for the cache is an object of entries or a list; an entry is an object   *)
(* with data and timestamp, or lacks one of them, or has a timestamp that   *)
(* is no ISO date.                                                          *)
(***************************************************************************)
bosch_cache_duration_hours == 24

\* the brands with an entry of their own in instructions_db
BMW == <<"B", "M", "W">>

VOLKSWAGEN == <<"V", "O", "L", "K", "S", "W", "A", "G", "E", "N">>

MERCEDES_BENZ == <<"M", "E", "R", "C", "E", "D", "E", "S", "-", "B", "E", "N", "Z">>

\* the year as get_bmw_model_specifics reads it: int(year) if year else 0,
\* and nothing for a year that is no number
YearNotes(year) ==
  IF year # <<>> /\ ~isdigit(year) THEN <<>>
  ELSE LET year_int == IF year = <<>> THEN 0 ELSE int(year)
       IN  IF year_int >= 2024 THEN <<"os_8_5", "latest_generation">>
           ELSE IF year_int >= 2020 THEN <<"intermediate_generation">>
           ELSE IF year_int >= 2018 THEN <<"first_generation">>
           ELSE <<>>

get_bmw_model_specifics(model, year) ==
  (IF Contains(upper(model), <<"1", "1", "8", "I">>) THEN <<"118i">>
   ELSE IF Contains(upper(model), <<"X", "1">>) THEN <<"X1">>
   ELSE IF Contains(upper(model), <<"S", "E", "R", "I", "E", " ", "3">>)
           \/ Contains(upper(model), <<"3", "2", "0">>) THEN <<"Serie 3">>
   ELSE <<>>)
    \o YearNotes(year)

get_vw_model_specifics(model, year) ==
  IF Contains(upper(model), <<"P", "O", "L", "O">>) THEN <<"Polo">>
  ELSE IF Contains(upper(model), <<"G", "O", "L", "F">>) THEN <<"Golf">>
  ELSE IF Contains(upper(model), <<"T", "I", "G", "U", "A", "N">>) THEN <<"Tiguan">>
  ELSE <<>>

get_mercedes_model_specifics(model, year) ==
  IF Contains(upper(model), <<"A", "-", "C", "L", "A", "S", "S">>)
     \/ Contains(upper(model), <<"A", "2", "0", "0">>) THEN <<"A-Class">>
  ELSE IF Contains(upper(model), <<"C", "-", "C", "L", "A", "S", "S">>) THEN <<"C-Class">>
  ELSE IF Contains(upper(model), <<"E", "-", "C", "L", "A", "S", "S">>) THEN <<"E-Class">>
  ELSE <<>>

\* the entries of instructions_db and default_instructions: the brand, the
\* source, the number of general steps and the notes on the model
Instructions(brand, source, steps, model_specific) ==
  [brand |-> brand, source |-> source, general_steps |-> steps,
   model_specific |-> model_specific]

instructions_db(model, year) ==
  [b \in {BMW, VOLKSWAGEN, MERCEDES_BENZ} |->
     CASE b = BMW ->
            Instructions(BMW, "Base de Conhecimento Bosch", 9,
                         get_bmw_model_specifics(model, year))
       [] b = VOLKSWAGEN ->
            Instructions(VOLKSWAGEN, "Base de Conhecimento Bosch", 9,
                         get_vw_model_specifics(model, year))
       [] b = MERCEDES_BENZ ->
            Instructions(MERCEDES_BENZ, "Base de Conhecimento Bosch", 9,
                         get_mercedes_model_specifics(model, year))]

default_instructions(brand_normalized) ==
  Instructions(brand_normalized, "Base de Conhecimento Generica", 7, <<>>)

\* a faulty variant: the brand is looked up as it was given
get_offline_instructions_AsGiven(brand, model, year) ==
  IF brand \in DOMAIN instructions_db(model, year)
  THEN instructions_db(model, year)[brand]
  ELSE default_instructions(brand)

get_offline_instructions(brand, model, year) ==
  LET brand_normalized == strip(upper(brand))
  IN  IF brand_normalized \in DOMAIN instructions_db(model, year)
      THEN instructions_db(model, year)[brand_normalized]
      ELSE default_instructions(brand_normalized)

\* fetch_online_instructions: the instructions, or an exception when the
\* fetch fails
fetch_online_instructions(brand, model, year, fails) ==
  [raised |-> fails, value |-> get_offline_instructions(brand, model, year)]

\* BoschIntegration.get_cache_key: the string that is hashed
bosch_cache_key(brand, model, year) ==
  LET key_string == upper(brand \o <<"_">> \o model \o <<"_">> \o year)
  IN  [i \in DOMAIN key_string |->
         IF key_string[i] = " " THEN "_" ELSE key_string[i]]

\* what the cache and its file hold
NoEntries == [k \in {} |-> <<>>]

EmptyBoschCache == [type |-> "dict", entries |-> NoEntries]

AbsentFile == [type |-> "absent", entries |-> NoEntries]

UnparseableFile == [type |-> "unparseable", entries |-> NoEntries]

\* BoschIntegration.load_cache: what json.load returns, whatever it is, and
\* an empty cache for a file that is absent or that json.load rejects
bosch_load_cache(file) ==
  IF file.type \in {"absent", "unparseable"} THEN EmptyBoschCache ELSE file

\* BoschIntegration.save_cache
bosch_save_cache(self_cache) == self_cache

\* a faulty variant: an entry exactly cache_duration old still counts as valid
is_cache_valid_Inclusive(self_cache, cache_key, t) ==
  IF self_cache.type = "list" \/ cache_key \notin DOMAIN self_cache.entries
  THEN [raised |-> FALSE, value |-> FALSE]
  ELSE LET cache_entry == self_cache.entries[cache_key]
       IN  IF cache_entry.type = "no_timestamp"
           THEN [raised |-> FALSE, value |-> FALSE]
           ELSE IF cache_entry.type = "bad_timestamp"
           THEN [raised |-> TRUE, value |-> FALSE]
           ELSE [raised |-> FALSE,
                 value |-> t - cache_entry.timestamp
                             <= bosch_cache_duration_hours]

\* is_cache_valid: True, False or an exception
is_cache_valid(self_cache, cache_key, t) ==
  IF self_cache.type = "list" \/ cache_key \notin DOMAIN self_cache.entries
  THEN [raised |-> FALSE, value |-> FALSE]
  ELSE LET cache_entry == self_cache.entries[cache_key]
       IN  IF cache_entry.type = "no_timestamp"
           THEN [raised |-> FALSE, value |-> FALSE]
           ELSE IF cache_entry.type = "bad_timestamp"
           THEN [raised |-> TRUE, value |-> FALSE]
           ELSE [raised |-> FALSE,
                 value |-> t - cache_entry.timestamp
                             < bosch_cache_duration_hours]

\* an exception reaches the caller, after the fetch or without it
Raised(self_cache, file, fetched) ==
  [raised |-> TRUE, value |-> <<>>, cache |-> self_cache, cache_file |-> file,
   fetched |-> fetched]

\* get_calibration_instructions: what is returned or that an exception is
\* raised, the cache and its file after the call, and whether
\* fetch_online_instructions was called
get_calibration_instructions(self_cache, file, t, brand, model, year, fetch_fails) ==
  LET cache_key == bosch_cache_key(brand, model, year)
      valid == is_cache_valid(self_cache, cache_key, t)
      fetched == fetch_online_instructions(brand, model, year, fetch_fails)
      instructions ==
        IF fetched.raised THEN get_offline_instructions(brand, model, year)
        ELSE fetched.value
      stored ==
        [self_cache EXCEPT
           !.entries =
             [k \in DOMAIN self_cache.entries \cup {cache_key} |->
                IF k = cache_key
                THEN [type |-> "entry", data |-> <<instructions>>,
                      timestamp |-> t]
                ELSE self_cache.entries[k]]]
  IN  IF valid.raised THEN Raised(self_cache, file, FALSE)
      ELSE IF valid.value
      THEN IF self_cache.entries[cache_key].type = "no_data"
           THEN Raised(self_cache, file, FALSE)
           ELSE [raised |-> FALSE,
                 value |-> self_cache.entries[cache_key].data,
                 cache |-> self_cache, cache_file |-> file,
                 fetched |-> FALSE]
      ELSE IF self_cache.type = "list" THEN Raised(self_cache, file, TRUE)
      ELSE [raised |-> FALSE, value |-> <<instructions>>,
            cache |-> stored, cache_file |-> bosch_save_cache(stored),
            fetched |-> TRUE]

(***************************************************************************)
(* The state machine                                                        *)
(***************************************************************************)
NoCache == [k \in {} |-> <<>>]

\* VehicleDatabase.__init__: no DataFrame, no index, no report
NewDatabase ==
  [df |-> <<>>, index |-> <<>>, validation_report |-> <<>>,
   last_loaded |-> <<>>]

\* BoschIntegration.__init__ over a cache file; calls counts the calls of
\* get_calibration_instructions and fetches those of
\* fetch_online_instructions
BoschIntegration(file) ==
  [cache |-> bosch_load_cache(file), cache_file |-> file, calls |-> 0,
   fetches |-> 0]

NewBosch == BoschIntegration(AbsentFile)

\* no call of load_from_csv is under way and none was made.  pc is the place
\* of the call in load_from_csv, source the file of the last call, old the
\* df and the index of the database when that call began, returned what it
\* returned, loads the number of calls made
Idle ==
  [pc |-> "idle", source |-> <<>>, old |-> [df |-> <<>>, index |-> <<>>],
   returned |-> <<>>, loads |-> 0]

\* the callers that use one SearchCache at the same time
Callers == {"first", "second"}

\* a caller that has made no call.  pc is the place of its call in get or
\* set, entry the cache_entry that get holds, raced whether get found its
\* entry expired while a set of the same key was under way, returned and
\* raised how the call ended, calls the number of calls made
NoCall ==
  [pc |-> "idle", op |-> "none", query |-> <<>>, filters |-> <<>>,
   results |-> <<>>, entry |-> <<>>, raced |-> FALSE, returned |-> <<>>,
   raised |-> FALSE, calls |-> 0]

NoCallers == [c \in Callers |-> NoCall]

\* the history of set calls after one more
Recorded(history, cache_key, results, t) ==
  [k \in DOMAIN history \cup {cache_key} |->
     IF k = cache_key THEN [results |-> results, at |-> t] ELSE history[k]]

\* the state after construction, but for the dataset: the cache file is
\* absent, so the cache is empty
Constructed ==
  /\ cache = NoCache
  /\ cache_file = NoCache
  /\ now = 0
  /\ search_analytics =
       [total_searches |-> 0, cache_hits |-> 0, last_searches |-> <<>>]
  /\ last_set = NoCache
  /\ call = [op |-> "none"]
  /\ ret = [results |-> <<>>, stats |-> [none |-> TRUE]]
  /\ database = NewDatabase
  /\ loading = Idle
  /\ bosch = NewBosch
  /\ callers = NoCallers

Init == df \in Datasets /\ Constructed

\* the cache used on its own, over an empty dataset
InitCache == df = <<>> /\ Constructed

\* one call of IntelligentSearch.search
SearchCall(query, filters, max_results) ==
  /\ \E out \in {search(df, cache, cache_file, search_analytics, now,
                          query, filters, max_results)} :
       /\ cache' = out.cache
       /\ cache_file' = out.cache_file
       /\ search_analytics' = out.analytics
       /\ ret' = [results |-> out.results, stats |-> out.stats]
       /\ last_set' =
            IF out.stored
            THEN Recorded(last_set, get_cache_key(query, filters),
                          out.results, now)
            ELSE last_set
  /\ call' = [op |-> "search", query |-> query, filters |-> filters,
              max_results |-> max_results, at |-> now]
  /\ UNCHANGED <<df, now>>
  /\ UNCHANGED db_vars
  /\ UNCHANGED <<bosch, callers>>

Search(query, filters, max_results) ==
  /\ search_analytics.total_searches < MaxSearches
  /\ SearchCall(query, filters, max_results)

AdvancedSearch(criteria) ==
  /\ ret' = [results |-> advanced_search(df, criteria),
             stats |-> [none |-> TRUE]]
  /\ call' = [op |-> "advanced_search", criteria |-> criteria, at |-> now]
  /\ UNCHANGED <<df, cache, cache_file, now, search_analytics, last_set>>
  /\ UNCHANGED db_vars
  /\ UNCHANGED <<bosch, callers>>

Tick ==
  /\ now + TickHours <= MaxTime
  /\ now' = now + TickHours
  /\ UNCHANGED <<df, cache, cache_file, search_analytics, last_set, call, ret>>
  /\ UNCHANGED db_vars
  /\ UNCHANGED <<bosch, callers>>

\* searches without filters, and the clock
Next ==
  \/ \E r \in Requests : Search(r.query, r.filters, r.max_results)
  \/ Tick

Spec == Init /\ [][Next]_vars

\* searches with filters, and the clock
NextFilters ==
  \/ \E r \in FilterRequests : Search(r.query, r.filters, r.max_results)
  \/ Tick

SpecFilters == Init /\ [][NextFilters]_vars

\* the calls of search with filters and with a max_results below the number
\* of rows
TruncateRequests ==
  [query : {Q_BMW118, Q_ID}, filters : FilterSets,
   max_results : MaxResultsValues]

\* searches with filters and small max_results, and the clock
NextTruncate ==
  \/ \E r \in TruncateRequests : Search(r.query, r.filters, r.max_results)
  \/ Tick

SpecTruncate == Init /\ [][NextTruncate]_vars

\* the calls of search with queries of digits and a query of words
DigitRequests ==
  [query : DigitQueries \cup {Q_BMW118}, filters : {<<>>},
   max_results : MaxResultsValues]

\* searches by digits, and the clock
NextDigits ==
  \/ \E r \in DigitRequests : Search(r.query, r.filters, r.max_results)
  \/ Tick

SpecDigits == Init /\ [][NextDigits]_vars

\* the calls of search between which the dataset is loaded anew
ReloadRequests ==
  [query : {Q_BMW118, Q_ID}, filters : {<<>>},
   max_results : {default_max_results}]

\* load_from_csv on the database that the engine holds as self.db: once it
\* has returned, self.db.df is the dataset read from the file; the engine
\* and its cache are as they were
Reload(d) ==
  /\ df' = d
  /\ call' = [op |-> "load_from_csv", at |-> now]
  /\ ret' = [value |-> TRUE]
  /\ UNCHANGED <<cache, cache_file, now, search_analytics, last_set>>
  /\ UNCHANGED db_vars
  /\ UNCHANGED <<bosch, callers>>

\* the program is started again over the dataset d: IntelligentSearch.__init__
\* makes a SearchCache, which loads the cache file of the run before
Restart(d) ==
  /\ df' = d
  /\ cache' = load_cache(cache_file)
  /\ search_analytics' =
       [total_searches |-> 0, cache_hits |-> 0, last_searches |-> <<>>]
  /\ call' = [op |-> "none"]
  /\ ret' = [results |-> <<>>, stats |-> [none |-> TRUE]]
  /\ UNCHANGED <<cache_file, now, last_set>>
  /\ UNCHANGED db_vars
  /\ UNCHANGED <<bosch, callers>>

\* searches, loads of another dataset, starts of the program, and the clock
NextReload ==
  \/ \E r \in ReloadRequests : Search(r.query, r.filters, r.max_results)
  \/ \E d \in Datasets : Reload(d)
  \/ \E d \in Datasets : Restart(d)
  \/ Tick

SpecReload == Init /\ [][NextReload]_vars

\* SearchCache.get, called on its own
Get(query, filters) ==
  /\ LET got == SearchCache_get(cache, now, query, filters)
     IN  /\ cache' = got.cache
         /\ ret' = [value |-> got.value]
  /\ call' = [op |-> "get", query |-> query, filters |-> filters, at |-> now]
  /\ UNCHANGED <<df, cache_file, now, search_analytics, last_set>>
  /\ UNCHANGED db_vars
  /\ UNCHANGED <<bosch, callers>>

\* SearchCache.set, called on its own
Set(query, results, filters) ==
  /\ cache' = SearchCache_set(cache, now, query, results, filters)
  /\ cache_file' = save_cache(cache')
  /\ last_set' = Recorded(last_set, get_cache_key(query, filters), results, now)
  /\ call' = [op |-> "set", query |-> query, filters |-> filters, at |-> now]
  /\ ret' = [value |-> <<>>]
  /\ UNCHANGED <<df, now, search_analytics>>
  /\ UNCHANGED db_vars
  /\ UNCHANGED <<bosch, callers>>

\* the cache on its own: get, set and the clock
NextCache ==
  \/ \E query \in CacheQueries, filters \in CacheFilters : Get(query, filters)
  \/ \E query \in CacheQueries, filters \in CacheFilters,
        results \in CacheResults : Set(query, results, filters)
  \/ Tick

SpecCache == InitCache /\ [][NextCache]_vars

\* calls of one caller of the concurrent cache
MaxCalls == 2

ConcurrentQueries == {Q_BMW118, Q_ID}

\* no call is under way
Quiet == \A c \in Callers : callers[c].pc \in {"idle", "done"}

CallerKey(c) == get_cache_key(callers[c].query, callers[c].filters)

\* the caller c enters SearchCache.get
BeginGet(c, query, filters) ==
  /\ callers[c].pc \in {"idle", "done"}
  /\ callers[c].calls < MaxCalls
  /\ callers' = [callers EXCEPT ![c] =
                   [NoCall EXCEPT !.pc = "lookup", !.op = "get",
                                  !.query = query, !.filters = filters,
                                  !.calls = callers[c].calls + 1]]
  /\ UNCHANGED <<search_vars, call, ret, bosch>>
  /\ UNCHANGED db_vars

\* if cache_key in self.cache: otherwise get returns None
GetLookup(c) ==
  /\ callers[c].pc = "lookup"
  /\ callers' = [callers EXCEPT ![c] =
                   IF CallerKey(c) \in DOMAIN cache
                   THEN [@ EXCEPT !.pc = "read"]
                   ELSE [@ EXCEPT !.pc = "done", !.returned = <<>>]]
  /\ UNCHANGED <<search_vars, call, ret, bosch>>
  /\ UNCHANGED db_vars

\* cache_entry = self.cache[cache_key]: KeyError when the entry is gone
GetRead(c) ==
  /\ callers[c].pc = "read"
  /\ callers' = [callers EXCEPT ![c] =
                   IF CallerKey(c) \in DOMAIN cache
                   THEN [@ EXCEPT !.pc = "test",
                                  !.entry = <<cache[CallerKey(c)]>>]
                   ELSE [@ EXCEPT !.pc = "done", !.raised = TRUE]]
  /\ UNCHANGED <<search_vars, call, ret, bosch>>
  /\ UNCHANGED db_vars

\* a set of the key of c has begun and has not returned
SetUnderWay(c) ==
  \E s \in Callers \ {c} :
    /\ callers[s].op = "set"
    /\ callers[s].pc \in {"store", "save"}
    /\ CallerKey(s) = CallerKey(c)

\* the test of cache_time: get returns the results of the entry it holds, or
\* goes on to delete
GetTest(c) ==
  /\ callers[c].pc = "test"
  /\ callers' = [callers EXCEPT ![c] =
                   IF IsFresh(callers[c].entry[1], now)
                   THEN [@ EXCEPT !.pc = "done",
                                  !.returned = <<callers[c].entry[1].results>>]
                   ELSE [@ EXCEPT !.pc = "delete",
                                  !.raced = SetUnderWay(c)]]
  /\ UNCHANGED <<search_vars, call, ret, bosch>>
  /\ UNCHANGED db_vars

\* del self.cache[cache_key], whatever entry the key has by now: KeyError
\* when the key is gone; then get returns None
GetDelete(c) ==
  /\ callers[c].pc = "delete"
  /\ IF CallerKey(c) \in DOMAIN cache
     THEN /\ cache' = [k \in DOMAIN cache \ {CallerKey(c)} |-> cache[k]]
          /\ callers' = [callers EXCEPT ![c] =
                           [@ EXCEPT !.pc = "done", !.returned = <<>>]]
     ELSE /\ cache' = cache
          /\ callers' = [callers EXCEPT ![c] =
                           [@ EXCEPT !.pc = "done", !.raised = TRUE]]
  /\ UNCHANGED <<df, cache_file, now, search_analytics, last_set>>
  /\ UNCHANGED <<call, ret, bosch>>
  /\ UNCHANGED db_vars

\* the caller c enters SearchCache.set
BeginSet(c, query, results, filters) ==
  /\ callers[c].pc \in {"idle", "done"}
  /\ callers[c].calls < MaxCalls
  /\ callers' = [callers EXCEPT ![c] =
                   [NoCall EXCEPT !.pc = "store", !.op = "set",
                                  !.query = query, !.filters = filters,
                                  !.results = results,
                                  !.calls = callers[c].calls + 1]]
  /\ UNCHANGED <<search_vars, call, ret, bosch>>
  /\ UNCHANGED db_vars

\* self.cache[cache_key] = {...}
SetStore(c) ==
  /\ callers[c].pc = "store"
  /\ cache' = SearchCache_set(cache, now, callers[c].query,
                              callers[c].results, callers[c].filters)
  /\ last_set' = Recorded(last_set, CallerKey(c), callers[c].results, now)
  /\ callers' = [callers EXCEPT ![c] = [@ EXCEPT !.pc = "save"]]
  /\ UNCHANGED <<df, cache_file, now, search_analytics>>
  /\ UNCHANGED <<call, ret, bosch>>
  /\ UNCHANGED db_vars

\* self.save_cache(), of the cache as it is by now
SetSave(c) ==
  /\ callers[c].pc = "save"
  /\ cache_file' = save_cache(cache)
  /\ callers' = [callers EXCEPT ![c] = [@ EXCEPT !.pc = "done"]]
  /\ UNCHANGED <<df, cache, now, search_analytics, last_set>>
  /\ UNCHANGED <<call, ret, bosch>>
  /\ UNCHANGED db_vars

\* the clock between the calls: a call takes no part of an hour
QuietTick == Quiet /\ Tick

\* two callers of one cache, each call a sequence of steps that the steps
\* of the other caller may interleave with
NextConcurrent ==
  \/ \E c \in Callers, query \in ConcurrentQueries :
       BeginGet(c, query, <<>>)
  \/ \E c \in Callers : GetLookup(c)
  \/ \E c \in Callers : GetRead(c)
  \/ \E c \in Callers : GetTest(c)
  \/ \E c \in Callers : GetDelete(c)
  \/ \E c \in Callers, query \in ConcurrentQueries, results \in CacheResults :
       BeginSet(c, query, results, <<>>)
  \/ \E c \in Callers : SetStore(c)
  \/ \E c \in Callers : SetSave(c)
  \/ QuietTick

SpecConcurrent == InitCache /\ [][NextConcurrent]_vars

\* advanced searches
NextAdvanced == \E criteria \in CriteriaSets : AdvancedSearch(criteria)

\* the datasets of the advanced searches: the small ones and the large ones
InitAdvanced == df \in Datasets \cup Fleets /\ Constructed

SpecAdvanced == InitAdvanced /\ [][NextAdvanced]_vars

\* the query of the n-th search of a long run over the empty dataset: the two
\* queries in turn, so that neighbours in the log differ
QueryOfTurn(n) == IF n % 2 = 1 THEN Q_ID ELSE Q_NOTFOUND

\* the engine once search has answered out to query
SearchedInto(before, query, out) ==
  [cache |-> out.cache, cache_file |-> out.cache_file,
   last_set |-> IF out.stored
                THEN Recorded(before.last_set, get_cache_key(query, <<>>),
                              out.results, 0)
                ELSE before.last_set,
   analytics |-> out.analytics,
   call |-> [op |-> "search", query |-> query, filters |-> <<>>,
             max_results |-> default_max_results, at |-> 0],
   ret |-> [results |-> out.results, stats |-> out.stats]]

\* one more search, of query, at time 0 over the empty dataset
SearchedOnce(before, query) ==
  SearchedInto(before, query,
               search(<<>>, before.cache, before.cache_file, before.analytics,
                      0, query, <<>>, default_max_results))

\* the engine after n searches at time 0 over the empty dataset
RECURSIVE Searched(_)
Searched(n) ==
  IF n = 0
  THEN [cache |-> NoCache, cache_file |-> NoCache, last_set |-> NoCache,
        analytics |-> [total_searches |-> 0, cache_hits |-> 0,
                       last_searches |-> <<>>],
        call |-> [op |-> "none"],
        ret |-> [results |-> <<>>, stats |-> [none |-> TRUE]]]
  ELSE CHOOSE s \in {SearchedOnce(before, QueryOfTurn(n)) :
                       before \in {Searched(n - 1)}} : TRUE

\* the log nearly full or full: the state after log_limit - 1 or log_limit
\* searches
InitLog ==
  /\ df = <<>>
  /\ now = 0
  /\ database = NewDatabase
  /\ loading = Idle
  /\ bosch = NewBosch
  /\ callers = NoCallers
  /\ \E n \in {log_limit - 1, log_limit} : \E s \in {Searched(n)} :
       /\ cache = s.cache
       /\ cache_file = s.cache_file
       /\ last_set = s.last_set
       /\ search_analytics = s.analytics
       /\ call = s.call
       /\ ret = s.ret

LogQueries == {Q_ID, Q_NOTFOUND, Q_PUNCT}

\* MaxSearches more searches once the log is full
LoggedSearch(query) ==
  /\ search_analytics.total_searches < log_limit + MaxSearches
  /\ SearchCall(query, <<>>, default_max_results)

NextLog ==
  \/ \E query \in LogQueries : LoggedSearch(query)
  \/ Tick

SpecLog == InitLog /\ [][NextLog]_vars

\* a DataFrame is given to the validator
InitValidator ==
  /\ df = <<>>
  /\ cache = NoCache
  /\ cache_file = NoCache
  /\ now = 0
  /\ search_analytics =
       [total_searches |-> 0, cache_hits |-> 0, last_searches |-> <<>>]
  /\ last_set = NoCache
  /\ \E frame \in Frames : call = [op |-> "given", df |-> frame]
  /\ ret = [results |-> <<>>, stats |-> [none |-> TRUE]]
  /\ database = NewDatabase
  /\ loading = Idle
  /\ bosch = NewBosch
  /\ callers = NoCallers

\* DataValidator.validate_dataframe on the DataFrame given
Validate ==
  /\ call.op = "given"
  /\ call' = [op |-> "validate_dataframe", df |-> call.df]
  /\ ret' = validate_dataframe(call.df)
  /\ UNCHANGED search_vars
  /\ UNCHANGED db_vars
  /\ UNCHANGED <<bosch, callers>>

\* DataValidator.clean_dataframe on the DataFrame given
Clean ==
  /\ call.op = "given"
  /\ call' = [op |-> "clean_dataframe", df |-> call.df]
  /\ ret' = clean_dataframe(call.df)
  /\ UNCHANGED search_vars
  /\ UNCHANGED db_vars
  /\ UNCHANGED <<bosch, callers>>

\* the validator on its own, over the DataFrames read from the CSV files
NextValidator == Validate \/ Clean

SpecValidator == InitValidator /\ [][NextValidator]_vars

MaxLoads == 2

\* the files given to load_from_csv
LoadSources ==
  {Malformed,
   CsvFile(<<CSV_BMW, CSV_VW>>, {}),
   CsvFile(<<CSV_BMW, CSV_MERCEDES, CSV_VW>>, {}),
   CsvFile(<<CSV_VW>>, {"ADAS"}),
   CsvFile(<<CSV_TESLA, CSV_BMW>>, {}),
   CsvFile(<<CSV_NUMBERS>>, {})}

\* the arguments of the lookups
LookupIds == {92983, 81234}

LookupBrands == {<<"v", "o", "l", "k", "s", "w", "a", "g", "e", "n">>}

LookupYears == {2023}

\* load_from_csv, up to the assignment of what pd.read_csv returns to
\* self.df; a file that cannot be read makes read_csv raise, and the call
\* return False
LoadRead(source) ==
  /\ loading.pc = "idle"
  /\ loading.loads < MaxLoads
  /\ IF source = Malformed
     THEN /\ loading' = [pc |-> "idle", source |-> <<source>>,
                         old |-> [df |-> database.df, index |-> database.index],
                         returned |-> <<FALSE>>, loads |-> loading.loads + 1]
          /\ UNCHANGED database
     ELSE /\ loading' = [pc |-> "validate", source |-> <<source>>,
                         old |-> [df |-> database.df, index |-> database.index],
                         returned |-> <<>>, loads |-> loading.loads + 1]
          /\ database' = [database EXCEPT !.df = <<read_csv(source)>>]
  /\ UNCHANGED search_vars
  /\ UNCHANGED <<call, ret>>
  /\ UNCHANGED <<bosch, callers>>

\* load_from_csv: self.validation_report = validate_dataframe(self.df)
LoadValidate ==
  /\ loading.pc = "validate"
  /\ database' = [database EXCEPT
                    !.validation_report = <<validate_dataframe(database.df[1])>>]
  /\ loading' = [loading EXCEPT !.pc = "clean"]
  /\ UNCHANGED search_vars
  /\ UNCHANGED <<call, ret>>
  /\ UNCHANGED <<bosch, callers>>

\* load_from_csv: self.df = clean_dataframe(self.df)
LoadClean ==
  /\ loading.pc = "clean"
  /\ database' = [database EXCEPT
                    !.df = <<clean_dataframe(database.df[1]).returned>>]
  /\ loading' = [loading EXCEPT !.pc = "index"]
  /\ UNCHANGED search_vars
  /\ UNCHANGED <<call, ret>>
  /\ UNCHANGED <<bosch, callers>>

\* load_from_csv: self.index = VehicleIndex(self.df), and on to return True
LoadIndex ==
  /\ loading.pc = "index"
  /\ \E indexes \in VehicleIndexes(database.df[1]) :
       database' = [database EXCEPT !.index = <<indexes>>,
                                    !.last_loaded = <<now>>]
  /\ loading' = [loading EXCEPT !.pc = "idle", !.returned = <<TRUE>>]
  /\ UNCHANGED search_vars
  /\ UNCHANGED <<call, ret>>
  /\ UNCHANGED <<bosch, callers>>

\* the lookups of a reader, at any time
GetVehicleByFipe(fipe_id) ==
  /\ call' = [op |-> "get_vehicle_by_fipe", fipe_id |-> fipe_id]
  /\ ret' = get_vehicle_by_fipe(database.index, fipe_id)
  /\ UNCHANGED search_vars
  /\ UNCHANGED db_vars
  /\ UNCHANGED <<bosch, callers>>

GetVehiclesByBrand(brand) ==
  /\ call' = [op |-> "get_vehicles_by_brand", brand |-> brand]
  /\ ret' = get_vehicles_by_brand(database.index, brand)
  /\ UNCHANGED search_vars
  /\ UNCHANGED db_vars
  /\ UNCHANGED <<bosch, callers>>

GetVehiclesByYear(year) ==
  /\ call' = [op |-> "get_vehicles_by_year", year |-> year]
  /\ ret' = get_vehicles_by_year(database.index, year)
  /\ UNCHANGED search_vars
  /\ UNCHANGED db_vars
  /\ UNCHANGED <<bosch, callers>>

\* loads of the database, and lookups while and between them
NextLoader ==
  \/ \E source \in LoadSources : LoadRead(source)
  \/ LoadValidate
  \/ LoadClean
  \/ LoadIndex
  \/ \E fipe_id \in LookupIds : GetVehicleByFipe(fipe_id)
  \/ \E brand \in LookupBrands : GetVehiclesByBrand(brand)
  \/ \E year \in LookupYears : GetVehiclesByYear(year)

SpecLoader == InitCache /\ [][NextLoader]_vars

MaxCalibrations == 2

\* the arguments of get_calibration_instructions
BoschBrands ==
  {<<"B", "M", "W">>,
   <<"b", "m", "w", " ">>,
   <<"V", "o", "l", "k", "s", "w", "a", "g", "e", "n">>,
   <<"M", "E", "R", "C", "E", "D", "E", "S", "-", "B", "E", "N", "Z">>,
   <<"M", "e", "r", "c", "e", "d", "e", "s">>,
   <<"A", "u", "d", "i">>}

BoschModels == {<<"1", "1", "8", "i">>}

BoschYears == {<<"2", "0", "2", "4">>, <<"2", "0", "x">>}

GetCalibrationInstructions(brand, model, year, fetch_fails) ==
  /\ bosch.calls < MaxCalibrations
  /\ \E out \in {get_calibration_instructions(bosch.cache, bosch.cache_file,
                                               now, brand, model, year,
                                               fetch_fails)} :
       /\ bosch' = [cache |-> out.cache, cache_file |-> out.cache_file,
                    calls |-> bosch.calls + 1,
                    fetches |-> bosch.fetches + (IF out.fetched THEN 1 ELSE 0)]
       /\ ret' = [raised |-> out.raised, value |-> out.value]
  /\ call' = [op |-> "get_calibration_instructions", brand |-> brand,
              model |-> model, year |-> year, fetch_fails |-> fetch_fails,
              at |-> now]
  /\ UNCHANGED search_vars
  /\ UNCHANGED db_vars
  /\ UNCHANGED callers

\* the calibration instructions asked for, the fetch failing or not
NextBosch ==
  \/ \E brand \in BoschBrands, model \in BoschModels, year \in BoschYears,
        fetch_fails \in BOOLEAN :
       GetCalibrationInstructions(brand, model, year, fetch_fails)
  \/ Tick

SpecBosch == InitCache /\ [][NextBosch]_vars

\* the key of the entry that the cache files hold
FileKey == bosch_cache_key(<<"B", "M", "W">>, <<"1", "1", "8", "i">>, <<"2", "0", "2", "4">>)

\* a cache file with one entry of the type given under FileKey, written at
\* time 0
FileWith(type) ==
  [type |-> "dict",
   entries |->
     [k \in {FileKey} |->
        [type |-> type,
         data |-> <<get_offline_instructions(<<"B", "M", "W">>, <<"1", "1", "8", "i">>, <<"2", "0", "2", "4">>)>>,
         timestamp |-> 0]]]

\* a cache file that holds a JSON list
ListFile == [type |-> "list", entries |-> NoEntries]

\* cache/bosch_cache.json when the BoschIntegration is made: absent, not
\* JSON, a list, an object whose entry is well formed, lacks its timestamp,
\* has a timestamp that is no date, or lacks its data
BoschCacheFiles ==
  {AbsentFile, UnparseableFile, ListFile, FileWith("entry"),
   FileWith("no_timestamp"), FileWith("bad_timestamp"), FileWith("no_data")}

InitBoschFiles ==
  /\ df = <<>>
  /\ cache = NoCache
  /\ cache_file = NoCache
  /\ now = 0
  /\ search_analytics =
       [total_searches |-> 0, cache_hits |-> 0, last_searches |-> <<>>]
  /\ last_set = NoCache
  /\ call = [op |-> "none"]
  /\ ret = [results |-> <<>>, stats |-> [none |-> TRUE]]
  /\ database = NewDatabase
  /\ loading = Idle
  /\ \E file \in BoschCacheFiles : bosch = BoschIntegration(file)
  /\ callers = NoCallers

\* the BoschIntegration made over each of the cache files
SpecBoschFiles == InitBoschFiles /\ [][NextBosch]_vars

\* the datasets with the row that has no Tipo de Regulagem
MissingDatasets ==
  {<<ROW_NOCALIB>>, <<ROW_NOCALIB, ROW_BMW320>>, <<ROW_BMW320>>}

MissingRequests ==
  {[query |-> q, filters |-> f, max_results |-> default_max_results] :
     q \in {Q_BMW118, Q_ID, Q_NOTFOUND}, f \in FilterSets}

\* one call of IntelligentSearch.search over a dataset that may lack
\* fields: the call as SearchCall has it, or, when _apply_filters raises,
\* the search counted, the cache as SearchCache.get left it, and the
\* exception at the caller
SearchOrRaise(query, filters, max_results) ==
  /\ search_analytics.total_searches < MaxSearches
  /\ IF search_raises(df, cache, now, query, filters, max_results)
     THEN /\ cache' = SearchCache_get(cache, now, query, filters).cache
          /\ search_analytics' =
               [search_analytics EXCEPT !.total_searches = @ + 1]
          /\ ret' = [raised |-> TRUE]
          /\ call' = [op |-> "search", query |-> query, filters |-> filters,
                      max_results |-> max_results, at |-> now]
          /\ UNCHANGED <<df, cache_file, now, last_set>>
          /\ UNCHANGED db_vars
          /\ UNCHANGED <<bosch, callers>>
     ELSE SearchCall(query, filters, max_results)

NextMissing ==
  \/ \E r \in MissingRequests : SearchOrRaise(r.query, r.filters, r.max_results)
  \/ Tick

InitMissing == df \in MissingDatasets /\ Constructed

SpecMissing == InitMissing /\ [][NextMissing]_vars

\* the texts given to extract_brands for a brand of the list: the brand as
\* listed, in lower case, inside a sentence, and next to a second brand
BrandTexts(brand) ==
  {brand,
   lower(brand),
   <<"m", "y", " ">> \o lower(brand) \o <<" ", "2", "0", "2", "3">>,
   brand \o <<" ">> \o <<"f", "i", "a", "t">>}

ExtractTexts == UNION {BrandTexts(brand) : brand \in Range(known_brands)}

InitExtract ==
  /\ df = <<>>
  /\ cache = NoCache
  /\ cache_file = NoCache
  /\ now = 0
  /\ search_analytics =
       [total_searches |-> 0, cache_hits |-> 0, last_searches |-> <<>>]
  /\ last_set = NoCache
  /\ \E text \in ExtractTexts : call = [op |-> "given", text |-> text]
  /\ ret = [results |-> <<>>, stats |-> [none |-> TRUE]]
  /\ database = NewDatabase
  /\ loading = Idle
  /\ bosch = NewBosch
  /\ callers = NoCallers

\* TextNormalizer.extract_brands on the text given
ExtractBrands ==
  /\ call.op = "given"
  /\ call' = [op |-> "extract_brands", text |-> call.text]
  /\ ret' = [value |-> extract_brands(call.text)]
  /\ UNCHANGED search_vars
  /\ UNCHANGED db_vars
  /\ UNCHANGED <<bosch, callers>>

NextExtract == ExtractBrands

SpecExtract == InitExtract /\ [][NextExtract]_vars

(***************************************************************************)
(* Properties                                                               *)
(***************************************************************************)
\* the cache key of the last call
CallKey == get_cache_key(call.query, call.filters)

\* what a get at time t must return for key k, from the history of set calls
ExpectedGet(k, t) ==
  IF k \in DOMAIN last_set /\ t - last_set[k].at < cache_duration_hours
  THEN <<last_set[k].results>>
  ELSE <<>>

\* C2: get(k) returns the results of the most recent set(k, v), unchanged,
\* exactly when that set happened strictly less than the cache duration
\* before the get; it returns None when k was never set or when the entry's
\* age is the cache duration or more.
C2_GetReturnsLastSetWithinTTL ==
  call.op = "get" => ret.value = ExpectedGet(CallKey, call.at)

\* C2 witness: a get that returns the stored results some time after the set
C2_Witness ==
  /\ call.op = "get"
  /\ CallKey \in DOMAIN last_set
  /\ call.at - last_set[CallKey].at > 0
  /\ ret.value = <<last_set[CallKey].results>>
  /\ last_set[CallKey].results # <<>>

\* the last call was search(q) without filters, for a purely numeric q that
\* is the id of a row of the dataset
IsIdSearch ==
  /\ call.op = "search"
  /\ call.filters = <<>>
  /\ isdigit(call.query)
  /\ \E i \in DOMAIN df : df[i].FipeID = int(call.query)

\* the rows of the dataset with the id of the last call, in dataset order,
\* as results of score 100
RowsWithCalledId ==
  LET hits == SelectSeq(df, LAMBDA row : row.FipeID = int(call.query))
  IN  [i \in DOMAIN hits |-> row_to_result_dict(hits[i], Tenths(100))]

IsSearchStep ==
  search_analytics'.total_searches = search_analytics.total_searches + 1

\* before the step the cache holds, under the key of the request of the
\* step, an entry stored by a search of the very same query and filters
\* less than cache_duration_hours ago
StoredByIdenticalSearch ==
  LET k == get_cache_key(call'.query, call'.filters)
  IN  /\ k \in DOMAIN cache
      /\ cache[k].query = call'.query
      /\ cache[k].filters = call'.filters
      /\ now - cache[k].timestamp < cache_duration_hours

\* C3: when a search stored its result list on the computed path, an
\* identical search before the TTL elapses is a cache hit: it returns the
\* stored list with cache_hit true, search time 0 and the method "cache",
\* whatever the stored list is, the empty list included.
C3_RepeatedSearchIsCacheHit ==
  [][(IsSearchStep /\ StoredByIdenticalSearch) =>
       /\ ret'.results = cache[get_cache_key(call'.query, call'.filters)].results
       /\ ret'.stats.cache_hit = TRUE
       /\ ret'.stats.search_time_ms = 0
       /\ ret'.stats.search_method = "cache"]_vars

\* C4: the list returned by search(query, filters, max_results) has at most
\* max_results records, after any sequence of earlier searches, on the
\* computed path and on the cache-hit path alike.
C4_AtMostMaxResults ==
  call.op = "search" => Len(ret.results) <= call.max_results

\* a result record satisfies one filter, as the specification words it
Satisfies(r, filter_key, filter_value) ==
  CASE filter_key = "brand" -> Contains(upper(r.brand), upper(filter_value))
    [] filter_key = "year" -> r.year = filter_value
    [] filter_key = "has_adas" -> r.has_adas = filter_value
    [] filter_key = "calibration_type" ->
         Contains(lower(r.calibration_type), lower(filter_value))

\* C5 as stated: every record returned by search(q, filters) satisfies all
\* the supplied filters at once: brand contained (case-insensitive), year
\* equal, has_adas equal (true or false), calibration kind contained
\* (case-insensitive).
C5_ResultsSatisfyEveryFilter ==
  call.op = "search" =>
    \A i \in DOMAIN ret.results : \A j \in DOMAIN call.filters :
      Satisfies(ret.results[i], call.filters[j][1], call.filters[j][2])

\* C5 amended: every record returned by search(q, filters) satisfies at
\* once all the supplied filters but a year filter of 0, which the search
\* takes for no filter.
C5_ResultsSatisfyEveryFilterButYearZero ==
  call.op = "search" =>
    \A i \in DOMAIN ret.results : \A j \in DOMAIN call.filters :
      \/ call.filters[j] = <<"year", 0>>
      \/ Satisfies(ret.results[i], call.filters[j][1], call.filters[j][2])

\* C5 witness: a search with a year filter that kept one of the two BMW
\* rows of the dataset and dropped the other
C5_Witness ==
  /\ call.op = "search"
  /\ call.query = Q_BMW118
  /\ call.filters = << <<"year", 2023>> >>
  /\ Range(df) = {ROW_BMW118, ROW_BMW320}
  /\ Len(ret.results) = 1
  /\ ret.results[1].fipe_id = ROW_BMW320.FipeID

\* the query of the step has no letter, digit or underscore: nothing of it
\* is left by the normalization
CalledWithNoWord ==
  \A i \in DOMAIN call'.query : call'.query[i] \notin WordChars

\* C6: a search whose query is empty after normalization returns the empty
\* list with stats that carry an error, and leaves the cache, the cache
\* file and the log of the last searches as they were.
C6_EmptyQueryIsAnErrorResult ==
  [][(IsSearchStep /\ CalledWithNoWord) =>
       /\ ret'.results = <<>>
       /\ DOMAIN ret'.stats = {"error"}
       /\ ret'.stats.error # ""
       /\ cache' = cache
       /\ cache_file' = cache_file
       /\ search_analytics'.last_searches = search_analytics.last_searches]_vars

\* C6 witness: the error result of a query of punctuation, returned when
\* the cache and the log already hold the entry of an earlier search
C6_Witness ==
  /\ call.op = "search"
  /\ call.query = Q_PUNCT
  /\ ret.results = <<>>
  /\ DOMAIN ret.stats = {"error"}
  /\ cache # NoCache
  /\ Len(search_analytics.last_searches) = 1
  /\ search_analytics.total_searches = 2

\* the last call was a search for a query that is not empty once normalized
\* and for which no row of the dataset qualifies: none has the query for
\* id, and none scores above the threshold
IsSearchWithoutMatch ==
  /\ call.op = "search"
  /\ LET q == normalize_text(call.query)
     IN  /\ q # <<>>
         /\ \A i \in DOMAIN df :
              /\ isdigit(q) => df[i].FipeID # int(q)
              /\ calculate_relevance_score(q, df[i], extract_numbers(q),
                                           extract_brands(q))
                   <= Tenths(relevance_threshold)

\* C7: when no record of the dataset qualifies for a non-empty query,
\* search returns the empty list with stats that are populated and carry no
\* error: result count 0, cache_hit false, the method used and the
\* normalized query.
C7_NotFoundIsEmptyWithStats ==
  IsSearchWithoutMatch =>
    /\ ret.results = <<>>
    /\ DOMAIN ret.stats = {"search_time_ms", "total_results", "cache_hit",
                           "search_method", "query_normalized"}
    /\ ret.stats.total_results = 0
    /\ ret.stats.cache_hit = FALSE
    /\ ret.stats.search_method = "text_search"
    /\ ret.stats.query_normalized = normalize_text(call.query)

\* C7 witness: a query that matches nothing, searched in a dataset of two
\* rows
C7_Witness ==
  /\ IsSearchWithoutMatch
  /\ call.query = Q_NOTFOUND
  /\ Len(df) = MaxRows
  /\ ret.results = <<>>
  /\ ret.stats.total_results = 0

\* a row meets every criterion supplied, all at once
MeetsCriteria(row, criteria) ==
  /\ "brand" \in DOMAIN criteria =>
       Contains(upper(row.BrandName), upper(criteria.brand))
  /\ "year_range" \in DOMAIN criteria =>
       row.VehicleModelYear \in criteria.year_range[1]..criteria.year_range[2]
  /\ "has_adas" \in DOMAIN criteria =>
       (row.ADAS = Sim) = criteria.has_adas /\ row.ADAS \in {Sim, Nao}
  /\ "calibration_type" \in DOMAIN criteria =>
       Contains(lower(row.TipoRegulagem), lower(criteria.calibration_type))

\* the rows of the dataset that meet the criteria of the last call
RowsMeetingCriteria ==
  SelectSeq(df, LAMBDA row : MeetsCriteria(row, call.criteria))

C9_Bmw118RankedFirst ==
  ( /\ call.op = "search"
    /\ call.query = Q_BMW118
    /\ call.filters = <<>>
    /\ call.max_results = default_max_results
    /\ \E i \in DOMAIN df : df[i] = ROW_BMW118 ) =>
    /\ ret.results # <<>>
    /\ ret.results[1].fipe_id = ROW_BMW118.FipeID
    /\ ret.results[1].model = ROW_BMW118.VehicleName
    /\ ret.results[1].search_score > Tenths(relevance_threshold)

\* the step is a call of SearchCache.get on its own
IsGetStep == call'.op = "get" /\ now' = now

\* C10 as stated: two requests whose queries have the same normalized form
\* and whose filter sets hold the same key/value pairs, in whatever order,
\* have the same cache key: a get for the one is served the entry, still
\* fresh, that a set for the other wrote.
C10_KeyOfNormalizedQuery ==
  [][IsGetStep =>
       \A k \in DOMAIN cache :
         ( /\ normalize_text(cache[k].query) = normalize_text(call'.query)
           /\ Range(cache[k].filters) = Range(call'.filters)
           /\ now - cache[k].timestamp < cache_duration_hours ) =>
         ret'.value = <<cache[k].results>>]_vars

\* C10 amended: two requests whose queries are equal once lower-cased and
\* trimmed and whose filter sets hold the same key/value pairs, in whatever
\* order, have the same cache key: a get for the one is served the entry,
\* still fresh, that a set for the other wrote.
C10_KeyOfLoweredTrimmedQuery ==
  [][IsGetStep =>
       \A k \in DOMAIN cache :
         ( /\ strip(lower(cache[k].query)) = strip(lower(call'.query))
           /\ Range(cache[k].filters) = Range(call'.filters)
           /\ now - cache[k].timestamp < cache_duration_hours ) =>
         ret'.value = <<cache[k].results>>]_vars

\* C10 witness: a get served the entry written for another spelling of the
\* query and another order of the same filters
C10_Witness ==
  /\ call.op = "get"
  /\ CallKey \in DOMAIN cache
  /\ cache[CallKey].query # call.query
  /\ cache[CallKey].filters # call.filters
  /\ call.filters # <<>>
  /\ ret.value = <<cache[CallKey].results>>

\* the step is a search that computed its answer: not a cache hit, not an
\* empty query
IsLoggedStep ==
  /\ IsSearchStep
  /\ "search_method" \in DOMAIN ret'.stats
  /\ ret'.stats.search_method # "cache"

\* C11: the log of recent searches never holds more than log_limit entries;
\* a search that computed its answer puts its entry first, keeps the entries
\* that were there in their order, and lets go of the oldest one only, and
\* only when the log was full
C11_LogNewestFirstCapped ==
  [][LET log == search_analytics.last_searches
         log_ == search_analytics'.last_searches
     IN  /\ Len(log_) <= log_limit
         /\ IsLoggedStep =>
               /\ Len(log_) = Min(Len(log) + 1, log_limit)
               /\ log_[1].query = call'.query
               /\ log_[1].timestamp = now
               /\ log_[1].results_count = Len(ret'.results)
               /\ \A i \in 2..Len(log_) : log_[i] = log[i - 1]
         /\ ~IsLoggedStep => log_ = log]_vars

\* C11 witness: more searches were logged than the log holds, the log is
\* full, the search just made is first and the one before it second
C11_Witness ==
  /\ search_analytics.total_searches > log_limit
  /\ Len(search_analytics.last_searches) = log_limit
  /\ call.op = "search"
  /\ call.query = Q_NOTFOUND
  /\ search_analytics.last_searches[1].query = Q_NOTFOUND
  /\ search_analytics.last_searches[1].timestamp = now
  /\ now > 0
  /\ search_analytics.last_searches[2].timestamp = 0
  /\ search_analytics.last_searches[log_limit].timestamp = 0

\* C12: the report of the validation of a DataFrame that lacks a required
\* column has validation_passed false and holds an error that names the
\* column; a report is returned whatever the DataFrame
C12_MissingColumnFailsValidation ==
  call.op = "validate_dataframe" =>
    /\ DOMAIN ret = DOMAIN NewReport(call.df)
    /\ \A col \in Range(required_columns) \ call.df.columns :
         /\ ret.validation_passed = FALSE
         /\ \E i \in DOMAIN ret.errors :
              /\ ret.errors[i].kind = "missing_columns"
              /\ col \in Range(ret.errors[i].columns)

\* C12 witness: a DataFrame without the column BrandName, whose validation
\* moreover broke off on an exception, has been validated
C12_Witness ==
  /\ call.op = "validate_dataframe"
  /\ "BrandName" \notin call.df.columns
  /\ \E i \in DOMAIN ret.errors : ret.errors[i].kind = "exception"
  /\ ret.errors[1] = Entry("missing_columns", <<"BrandName">>, 0)
  /\ ret.validation_passed = FALSE

\* C13: the quality score of every report is 100 less 20 for each error,
\* 5 for each warning and 2 for each percent of missing cells, kept within
\* 0 and 100 (scores in hundredths of a point)
C13_ScoreIsFormulaOfReport ==
  call.op = "validate_dataframe" =>
    LET percentage == IF ret.missing_data_percentage = <<>> THEN 0
                      ELSE ret.missing_data_percentage[1]
        expected == 10000 - 2000 * Len(ret.errors) - 500 * Len(ret.warnings)
                      - 2 * percentage
    IN  /\ ret.data_quality_score \in 0..10000
        /\ ret.data_quality_score =
             IF expected < 0 THEN 0
             ELSE IF expected > 10000 THEN 10000 ELSE expected

\* C15: cleaning the DataFrame that clean_dataframe returned returns it
\* unchanged, in every cell of every row, and clean_dataframe leaves the
\* DataFrame it was given as it was
C15_CleaningIsAFixedPoint ==
  call.op = "clean_dataframe" =>
    /\ clean_dataframe(ret.returned).returned = ret.returned
    /\ ret.df = call.df

\* C15 witness: a DataFrame with a brand under an alias, an id and a year
\* that are no numbers and an ADAS value outside the mapping has been
\* cleaned, and cleaning changed it
C15_Witness ==
  /\ call.op = "clean_dataframe"
  /\ call.df = read_csv(CsvFile(<<CSV_VW, CSV_TESLA>>, {}))
  /\ ret.returned # call.df
  /\ ret.returned.rows[1]["BrandName"] = Str(<<"V", "O", "L", "K", "S", "W", "A", "G", "E", "N">>)
  /\ ret.returned.rows[1]["ADAS"] = Str(<<"S", "i", "m">>)
  /\ ret.returned.rows[2]["FipeID"] = NaN
  /\ ret.returned.rows[2]["VehicleModelYear"] = NaN
  /\ ret.returned.rows[2]["ADAS"] = Str(<<"X">>)
  /\ ret.returned.rows[1]["search_text"] = Str(<<"V", "O", "L", "K", "S", "W", "A", "G", "E", "N", " ", "G", "O", "L", "F">>)

\* the file of the last call of load_from_csv cannot be read or lacks a
\* required column
LastSourceIsFaulty ==
  /\ loading.source # <<>>
  /\ \/ loading.source[1] = Malformed
     \/ Range(required_columns) \ loading.source[1].columns # {}

\* C14: once a call of load_from_csv on a file that cannot be read or that
\* lacks a required column is over, it has returned False, and df and index
\* of the database are the ones the database had when the call began
C14_FailedLoadKeepsDataset ==
  (loading.pc = "idle" /\ LastSourceIsFaulty) =>
    /\ loading.returned = <<FALSE>>
    /\ database.df = loading.old.df
    /\ database.index = loading.old.index

\* the step is a call of get_vehicle_by_fipe between two loads
IsLookupByFipeStep ==
  /\ call'.op = "get_vehicle_by_fipe"
  /\ loading.pc = "idle"
  /\ UNCHANGED db_vars
  /\ UNCHANGED <<bosch, callers>>

\* the first row of the DataFrame with the FipeID given, as a record of
\* the fipe index
FirstRowWith(frame, fipe_id) ==
  LET first == CHOOSE i \in RowsWith(frame, "FipeID", Num(fipe_id)) :
                 \A j \in RowsWith(frame, "FipeID", Num(fipe_id)) : i <= j
  IN  [col \in frame.columns \ {"FipeID"} |-> frame.rows[first][col]]

\* C16: over a loaded DataFrame that holds a FipeID more than once,
\* get_vehicle_by_fipe returns, for every FipeID of the DataFrame, repeated
\* or not, the first row that has it
C16_FirstOccurrenceWins ==
  [][(/\ IsLookupByFipeStep
      /\ database.df # <<>>
      /\ "FipeID" \in database.df[1].columns
      /\ HasDuplicateFipe(database.df[1])
      /\ RowsWith(database.df[1], "FipeID", Num(call'.fipe_id)) # {})
       => ret' = <<FirstRowWith(database.df[1], call'.fipe_id)>>]_vars

\* the pairs of df and index that a finished load of the file leaves
LoadedPairs(source) ==
  LET loaded == clean_dataframe(read_csv(source)).returned
  IN  {[df |-> <<loaded>>, index |-> <<indexes>>] :
         indexes \in VehicleIndexes(loaded)}

\* C20: at every moment of a load, df and index of the database, as a
\* reader finds them, are the pair from before the load or the pair of the
\* finished load
C20_ReaderSeesOldOrNewPair ==
  LET found == [df |-> database.df, index |-> database.index]
  IN  \/ found = loading.old
      \/ /\ loading.source # <<>>
         /\ loading.source[1] # Malformed
         /\ found \in LoadedPairs(loading.source[1])

\* the step is a call of get_calibration_instructions
IsCalibrationStep ==
  /\ call'.op = "get_calibration_instructions"
  /\ bosch'.calls = bosch.calls + 1

\* the cache holds a fresh entry under the key of the call of the step
CalibrationIsCached ==
  is_cache_valid(bosch.cache,
                 bosch_cache_key(call'.brand, call'.model, call'.year),
                 now).value

IsAbsentOrCorrupt(file) ==
  \/ file.type \in {"absent", "unparseable", "list"}
  \/ \E k \in DOMAIN file.entries : file.entries[k].type # "entry"

\* C18: over a cache file that is absent or corrupt, every call of
\* get_calibration_instructions ends as it does over an empty cache: it
\* raises nothing and returns the instructions computed for its arguments
C18_CorruptCacheFileIsAnEmptyCache ==
  [][(IsCalibrationStep /\ IsAbsentOrCorrupt(bosch.cache_file)) =>
       /\ ret'.raised = FALSE
       /\ ret'.value =
            get_calibration_instructions(EmptyBoschCache, AbsentFile, now,
                                         call'.brand, call'.model, call'.year,
                                         call'.fetch_fails).value]_vars

\* C19: over a dataset that has the required columns, with or without the
\* optional ones, every search returns its pair of results and stats
C19_SearchReturnsResultsAndStats ==
  call.op = "search" => DOMAIN ret = {"results", "stats"}

\* a get of the caller g found its entry expired while the set of the same
\* key by the caller s was under way, and both calls have returned
RacedAndDone(g, s) ==
  /\ g # s
  /\ callers[g].pc = "done" /\ callers[g].op = "get" /\ callers[g].raced
  /\ callers[s].pc = "done" /\ callers[s].op = "set"
  /\ CallerKey(g) = CallerKey(s)

\* C21: when a get that finds an expired entry runs at the same time as a
\* set of the same key, then once both have returned the cache holds the
\* fresh entry of the set; and no get raises
C21_EvictionDoesNotRaceWithSet ==
  /\ \A g, s \in Callers :
       RacedAndDone(g, s) =>
         /\ CallerKey(s) \in DOMAIN cache
         /\ cache[CallerKey(s)].results = callers[s].results
         /\ IsFresh(cache[CallerKey(s)], now)
  /\ \A g \in Callers : callers[g].op = "get" => ~callers[g].raised

\* C22: extract_brands returns every brand of the list that the text
\* contains, in whatever letter case the text has it
C22_EveryContainedBrandIsExtracted ==
  call.op = "extract_brands" =>
    \A brand \in Range(known_brands) :
      Contains(upper(call.text), brand) => brand \in Range(ret.value)

\* the step is a call of SearchCache.set on its own
IsSetStep == call'.op = "set" /\ now' = now

\* the cache key of the call of the step
StepKey == get_cache_key(call'.query, call'.filters)

\* C23: an entry leaves the cache only in a get of its own key that finds it
\* expired, and such a get does remove it; an entry changes only in a set of
\* its own key; so an expired entry stays until its key is read
C23_EvictionOnlyOnReadOfOwnKey ==
  [][/\ \A k \in DOMAIN cache \ DOMAIN cache' :
          IsGetStep /\ k = StepKey /\ ~IsFresh(cache[k], now)
     /\ \A k \in DOMAIN cache \cap DOMAIN cache' :
          cache'[k] # cache[k] => IsSetStep /\ k = StepKey
     /\ (IsGetStep /\ StepKey \in DOMAIN cache
           /\ ~IsFresh(cache[StepKey], now)) => StepKey \notin DOMAIN cache'
    ]_vars

\* C23 witness: a get has removed the expired entry of its key and the
\* expired entry of another key is still stored
C23_Witness ==
  /\ call.op = "get"
  /\ CallKey \in DOMAIN last_set
  /\ CallKey \notin DOMAIN cache
  /\ \E k \in DOMAIN cache : ~IsFresh(cache[k], now)

\* the records of the dataset that qualify by score for the query, ranked:
\* the rows with the id, or the rows above the threshold by descending score
Qualifying(d, query) ==
  LET normalized_query == Normalized[query]
      fipe_results ==
        IF isdigit(normalized_query)
        THEN search_by_fipe(d, normalized_query) ELSE <<>>
  IN  IF fipe_results # <<>> THEN fipe_results
      ELSE IF d = <<>> THEN <<>>
      ELSE sort_by_score(ScoredRows(d, normalized_query))

\* C24: a search that computes its answer returns the first max_results of
\* the qualifying records that satisfy every filter: the filters are applied
\* before the list is cut
C24_FilteredBeforeTruncated ==
  [][IsLoggedStep =>
       ret'.results =
         Take(apply_filters(Qualifying(df, call'.query), call'.filters),
              call'.max_results)]_vars

\* the step is a search answered by the textual path
IsTextStep == IsLoggedStep /\ ret'.stats.search_method = "text_search"

\* the score of the i-th row of the dataset for the query of the step
StepScore(i) == Relevance[Normalized[call'.query]][df[i]]

\* the rows of the dataset that score above the threshold
Eligible ==
  {i \in DOMAIN df : StepScore(i) > Tenths(relevance_threshold)}

\* the place of the eligible row i when the eligible rows are ordered by
\* descending score, rows of equal score in dataset order
Place(i) ==
  1 + Cardinality({k \in Eligible :
                     \/ StepScore(k) > StepScore(i)
                     \/ StepScore(k) = StepScore(i) /\ k < i})

StepIdHit ==
  /\ isdigit(Normalized[call'.query])
  /\ \E i \in DOMAIN df : df[i].FipeID = int(Normalized[call'.query])

\* C26: a search that computes its answer reports the text method exactly
\* when the normalized query is not all digits or no row has the id; a query
\* of digits that is the id of no row is answered by the textual scoring of
\* every row
C26_IdMissFallsThroughToText ==
  [][IsLoggedStep =>
       /\ ret'.stats.search_method = "text_search" <=> ~StepIdHit
       /\ ret'.stats.search_method = "fipe_id" <=> StepIdHit
       /\ (isdigit(Normalized[call'.query]) /\ ~StepIdHit) =>
            /\ Len(ret'.results) =
                 Min(Cardinality(Eligible), call'.max_results)
            /\ \A i \in Eligible :
                 Place(i) <= call'.max_results =>
                   ret'.results[Place(i)] =
                     row_to_result_dict(df[i], StepScore(i))]_vars

\* C26 witness: a query of digits that is the id of no row was answered by
\* the text method with a row that the scoring found
C26_Witness ==
  /\ call.op = "search"
  /\ call.query = Q_118
  /\ \A i \in DOMAIN df : df[i].FipeID # int(Normalized[Q_118])
  /\ "search_method" \in DOMAIN ret.stats
  /\ ret.stats.search_method = "text_search"
  /\ Len(ret.results) >= 1

\* the cache key of the call of get_calibration_instructions of the step
StepBoschKey == bosch_cache_key(call'.brand, call'.model, call'.year)

\* before the step the cache holds under that key an entry younger than the
\* cache duration
StepBoschHit ==
  /\ StepBoschKey \in DOMAIN bosch.cache.entries
  /\ now - bosch.cache.entries[StepBoschKey].timestamp
       < bosch_cache_duration_hours

\* C27: get_calibration_instructions returns the stored instructions, without
\* a fetch and without touching the cache, exactly when the cache holds an
\* entry for the key that is younger than 24 hours; otherwise it fetches or
\* falls back, stores under the key what it returns with the time of the
\* call, keeps the other entries and writes the cache to its file
C27_BoschCacheFollowsTTL ==
  [][IsCalibrationStep =>
       IF StepBoschHit
       THEN /\ ret'.value = bosch.cache.entries[StepBoschKey].data
            /\ bosch'.fetches = bosch.fetches
            /\ bosch'.cache = bosch.cache
            /\ bosch'.cache_file = bosch.cache_file
       ELSE /\ bosch'.fetches = bosch.fetches + 1
            /\ ret'.value =
                 <<get_offline_instructions(call'.brand, call'.model,
                                            call'.year)>>
            /\ DOMAIN bosch'.cache.entries =
                 DOMAIN bosch.cache.entries \cup {StepBoschKey}
            /\ bosch'.cache.entries[StepBoschKey] =
                 [type |-> "entry", data |-> ret'.value, timestamp |-> now]
            /\ \A k \in DOMAIN bosch.cache.entries \ {StepBoschKey} :
                 bosch'.cache.entries[k] = bosch.cache.entries[k]
            /\ bosch'.cache_file = bosch'.cache]_vars

\* C27 witness: a call was answered from the cache some hours after the
\* entry was stored, and no fetch was made for it
C27_Witness ==
  /\ call.op = "get_calibration_instructions"
  /\ ret.raised = FALSE
  /\ bosch.calls = 2
  /\ bosch.fetches = 1
  /\ LET k == bosch_cache_key(call.brand, call.model, call.year)
     IN  /\ k \in DOMAIN bosch.cache.entries
         /\ call.at - bosch.cache.entries[k].timestamp > 0

\* what the claimed mapping of the ADAS flag makes of a cell: Sim for a
\* letter-case variant of sim, Nao with its accent for one of the word with
\* or without the accent, the cell itself otherwise
MappedAdas(cell) ==
  IF cell.t # "str" THEN cell
  ELSE IF lower(cell.s) = <<"s", "i", "m">> THEN Str(Sim)
  ELSE IF lower(cell.s) \in {<<"n", "a~", "o">>, <<"n", "a", "o">>}
       THEN Str(Nao)
  ELSE cell

\* C28: clean_dataframe maps every letter-case variant of sim to Sim and of
\* the word nao, with or without its accent, to Nao with the accent, and
\* returns every other value of the column ADAS unchanged
C28_AdasMappedCaseInsensitively ==
  (call.op = "clean_dataframe" /\ "ADAS" \in call.df.columns) =>
    \A i \in DOMAIN call.df.rows :
      ret.returned.rows[i]["ADAS"] = MappedAdas(call.df.rows[i]["ADAS"])

\* C29: a validation report is marked failed exactly when its list of
\* errors is not empty
C29_FailedExactlyWhenErrors ==
  call.op = "validate_dataframe" =>
    (ret.validation_passed = FALSE <=> ret.errors # <<>>)

\* the result r is the result dict of a row of the dataset d
IsRecordOf(r, d) ==
  \E i \in DOMAIN d : r = row_to_result_dict(d[i], r.search_score)

\* C30: every record that a search returns is a row of the dataset loaded at
\* the time of the search, whatever was loaded and searched before
C30_ResultsBelongToLoadedDataset ==
  [][IsSearchStep =>
       \A j \in DOMAIN ret'.results : IsRecordOf(ret'.results[j], df)]_vars

====
